---- MODULE Spec2Model ----
(***************************************************************************)
(* Job orchestration of codex_telegram: the jobs table of the Repository,  *)
(* the Orchestrator facade (submit / approve / reject / cancel), the       *)
(* dispatch loop and the worker task _run_job with the executor's          *)
(* suspension points.                                                      *)
(*                                                                         *)
(* Scheduling is asyncio's: one event loop, so every stretch of code       *)
(* between two awaits is one atomic action.  task.cancel() only marks the  *)
(* task; the CancelledError is raised inside the task at its next step.    *)
(* A task cancelled before its first step never executes its body.         *)
(* asyncio.wait_for (Python 3.11, the oldest interpreter the sources run   *)
(* on) returns the awaited result instead of raising CancelledError when   *)
(* the awaited future is already done at the moment the cancellation is    *)
(* delivered; later interpreters raise.  Both outcomes are modelled.       *)
(***************************************************************************)
EXTENDS Integers, Sequences, FiniteSets, TLC

VARIABLES
    jobs,             \* rows of table jobs, in id order: jobs[id]
    events,           \* events[id]: event types of table job_events for the job, in insertion order
    running_tasks,    \* Orchestrator._running_tasks: ids that hold a worker task
    task_pc,          \* task_pc[id]: position of the worker task of the job
    task_result,      \* task_result[id]: how the worker task ended (asyncio.Task outcome)
    must_cancel,      \* ids whose worker task has a cancellation pending
    child,            \* child[id]: state of the process spawned by the executor
    child_rc,         \* child_rc[id]: return code of the exited child
    session_active,   \* status of the session SessionName in table sessions
    now,              \* the clock read by _now_iso (whole seconds; it stands still here)
    stop_pc,          \* position of Orchestrator.stop; _stop_event is set once it has begun
    dispatch_alive,   \* the task of _dispatch_loop has not ended
    notifier_calls,   \* notifier_calls[id]: notifier methods called for the job, in order
    call_raised,      \* facade methods a call of which raised instead of returning the job
    prompts,          \* history: prompts[id] = the prompt the job was submitted with
    notifier_failures, \* history: <<method, id>> of the callers a notifier call raised into
    dispatch_errors,  \* history: dispatcher iterations in which the reservation raised
    approve_calls,    \* history: approve_calls[id] = approve_job calls made on the job
    reject_calls,     \* history: reject_job calls made on the job
    cancel_calls,     \* history: cancel_job calls made on the job
    approved_effect,  \* history: ids on which an approve_job call changed the row
    dead_awaiting,    \* history: ids rejected or canceled while awaiting approval
    executed,         \* history: executed[id] = number of executor.execute calls for the job
    reserved,         \* history: reserved[id] = number of times the job was returned by a reservation
    cancel_running,   \* history: ids on which cancel_job was called while status was running
    terminal_writes,  \* history: terminal_writes[id] = UPDATEs that wrote finished_at of the row
    db_lock,          \* Database._lock: 0 when free, else the caller holding it
    caller_pc,        \* position of each concurrent caller of reserve_next_runnable_job
    caller_row,       \* the row a caller selected inside its transaction (0: none)
    caller_ret,       \* the job id a caller returned (0: None)
    jobs0,            \* history: the jobs table the concurrent callers started from
    files,            \* the files on disk: path, resolved path, size
    artifacts,        \* rows of table artifacts, in id order
    collections,      \* history: collection operations made so far
    runtime,          \* CodexExecutor._runtime, the RuntimeProfile
    last_call,        \* history: the last RuntimeProfile setter call and whether it raised
    template,         \* the command template plan construction started from
    command,          \* the command after the last plan construction
    passes,           \* history: plan constructions applied to the command
    boot_cmd,         \* settings.codex_session_boot_cmd_template is set
    boot_spawned,     \* history: boot processes spawned by SessionManager.create
    create_pc,        \* position of each concurrent caller of SessionManager.create
    create_ret,       \* the value of created each caller of create returned
    approval_polls,   \* the ApprovalPollStore of the process
    approval_checklists, \* the ApprovalChecklistStore of the process
    approval_rows,    \* the rows the persistence of the two stores holds
    pending,          \* history: tokens registered and not removed since
    popped,           \* history: tokens removed by pop or pop_for_job
    restarts,         \* history: restarts of the process
    last_seen,        \* CommandGuard._last_seen of the owner
    control_callers,  \* history: the users whose updates caused a control call
    last_update,      \* history: the update handled last
    active_session    \* the active session of the owner's chat (table chat_state)

(* Orchestrator.stop and the dispatcher task *)
life_vars == <<stop_pc, dispatch_alive, dispatch_errors>>

(* the notifier and the outcome of facade calls *)
note_vars == <<notifier_calls, call_raised, notifier_failures>>

vars == <<jobs, events, running_tasks, task_pc, task_result, must_cancel, child, child_rc,
          session_active, now, approve_calls, reject_calls, cancel_calls,
          approved_effect, dead_awaiting, executed, reserved, cancel_running,
          terminal_writes, prompts, life_vars, note_vars,
          db_lock, caller_pc, caller_row, caller_ret, jobs0,
          files, artifacts, collections, runtime, last_call, template, command, passes,
          boot_cmd, boot_spawned, create_pc, create_ret,
          approval_polls, approval_checklists, approval_rows, pending, popped, restarts,
          last_seen, control_callers, last_update, active_session>>

orch_vars == <<events, running_tasks, task_pc, task_result, must_cancel, child, child_rc,
               session_active, now, approve_calls, reject_calls, cancel_calls,
               approved_effect, dead_awaiting, executed, reserved, cancel_running,
               terminal_writes, prompts, life_vars, note_vars>>

caller_vars == <<db_lock, caller_pc, caller_row, caller_ret, jobs0>>

(* the artifact service, the runtime profile and plan construction *)
side_vars == <<files, artifacts, collections, runtime, last_call, template, command, passes>>

(* SessionManager.create and its callers *)
sess_vars == <<boot_cmd, boot_spawned, create_pc, create_ret>>

(* the approval stores and what is kept of them *)
store_vars == <<approval_polls, approval_checklists, approval_rows, pending, popped, restarts>>

(* the chat front end *)
bot_vars == <<last_seen, control_callers, last_update, active_session>>

svc_vars == <<side_vars, sess_vars, store_vars, bot_vars>>

----------------------------------------------------------------------------
(* Bounds of the model *)

MaxJobs == 2

MaxControlCalls == 2

NumCallers == 2

MaxDispatchErrors == 2

MaxNotifierJobs == 1

MaxClock == 2

MaxCreators == 4

MaxTokens == 3

MaxRestarts == 2

(* Program constants *)

max_parallel_jobs == 1

EXIT_TIMEOUT == 124

EXIT_CANCELED == 130

EXIT_EXCEPTION == 1

EXIT_SESSION_INACTIVE == 2

NULL == -1

NoText == "NULL"

Users == {1, 2}

ChildExitCodes == {0, 7}

SessionName == "demo"

JobIds == 1..Len(jobs)

Callers == 1..NumCallers

Creators == 1..MaxCreators

Last(seq) == seq[Len(seq)]

RECURSIVE SumSeq(_)
SumSeq(s) == IF s = <<>> THEN 0 ELSE Head(s) + SumSeq(Tail(s))

(* approve_job, reject_job and cancel_job calls made so far *)
ControlCalls == SumSeq(approve_calls) + SumSeq(reject_calls) + SumSeq(cancel_calls)

----------------------------------------------------------------------------
(* models.py *)

QUEUED == "queued"
RUNNING == "running"
AWAITING_APPROVAL == "awaiting_approval"
SUCCEEDED == "succeeded"
FAILED == "failed"
CANCELED == "canceled"
REJECTED == "rejected"

JobStatus == {QUEUED, RUNNING, AWAITING_APPROVAL, SUCCEEDED, FAILED, CANCELED, REJECTED}

JobMode == {"ephemeral", "session"}

is_terminal(job) == job.status \in {SUCCEEDED, FAILED, CANCELED, REJECTED}

----------------------------------------------------------------------------
(* repository.py: each operator is the table after the statement *)

COALESCE(a, b) == IF a # NULL THEN a ELSE b

COALESCE_TEXT(a, b) == IF a # NoText THEN a ELSE b

create_job(jt, mode, session_name, needs_approval, status, t) ==
    Append(jt, [status |-> status, mode |-> mode, session_name |-> session_name,
                needs_approval |-> needs_approval, approved_by |-> NULL,
                updated_at |-> t, started_at |-> NULL, finished_at |-> NULL,
                exit_code |-> NULL, summary_text |-> NoText, error_text |-> NoText])

RunnableRows(jt) ==
    {i \in DOMAIN jt : jt[i].status = QUEUED
                       /\ (jt[i].needs_approval = FALSE \/ jt[i].approved_by # NULL)}

Min(S) == CHOOSE x \in S : \A y \in S : x <= y

(* mutant: ORDER BY id DESC *)
reserve_select_newest(jt) ==
    IF RunnableRows(jt) = {} THEN 0
    ELSE CHOOSE x \in RunnableRows(jt) : \A y \in RunnableRows(jt) : x >= y

reserve_select(jt) == IF RunnableRows(jt) = {} THEN 0 ELSE Min(RunnableRows(jt))

(* mutant: the UPDATE does not set started_at *)
reserve_update_no_started_at(jt, id, t) ==
    IF id \in DOMAIN jt /\ jt[id].status = QUEUED
    THEN [jt EXCEPT ![id].status = RUNNING, ![id].updated_at = t]
    ELSE jt

(* mutant: the UPDATE sets started_at but leaves the status queued *)
reserve_update_keeps_status(jt, id, t) ==
    IF id \in DOMAIN jt /\ jt[id].status = QUEUED
    THEN [jt EXCEPT ![id].updated_at = t, ![id].started_at = COALESCE(@, t)]
    ELSE jt

reserve_update(jt, id, t) ==
    IF id \in DOMAIN jt /\ jt[id].status = QUEUED
    THEN [jt EXCEPT ![id].status = RUNNING, ![id].updated_at = t,
                    ![id].started_at = COALESCE(@, t)]
    ELSE jt

(* updated.rowcount of the UPDATE of reserve_next_runnable_job *)
reserve_rowcount(jt, id) == IF id \in DOMAIN jt /\ jt[id].status = QUEUED THEN 1 ELSE 0

(* mutant: the UPDATE leaves exit_code as it is *)
set_job_status_keeps_exit_code(jt, id, status, summary_text, error_text, exit_code, finished, t) ==
    [jt EXCEPT ![id].status = status, ![id].updated_at = t,
               ![id].summary_text = COALESCE_TEXT(summary_text, @),
               ![id].error_text = COALESCE_TEXT(error_text, @),
               ![id].finished_at = COALESCE(IF finished THEN t ELSE NULL, @)]

set_job_status(jt, id, status, summary_text, error_text, exit_code, finished, t) ==
    [jt EXCEPT ![id].status = status, ![id].updated_at = t,
               ![id].summary_text = COALESCE_TEXT(summary_text, @),
               ![id].error_text = COALESCE_TEXT(error_text, @),
               ![id].exit_code = COALESCE(exit_code, @),
               ![id].finished_at = COALESCE(IF finished THEN t ELSE NULL, @)]

(* mutant: the UPDATE has no status guard *)
repo_cancel_job_unguarded(jt, id, t) ==
    [jt EXCEPT ![id].status = CANCELED, ![id].updated_at = t, ![id].finished_at = t]

(* mutant: the UPDATE does not set finished_at *)
repo_cancel_job_no_finished_at(jt, id, t) ==
    IF jt[id].status \in {QUEUED, RUNNING, AWAITING_APPROVAL}
    THEN [jt EXCEPT ![id].status = CANCELED, ![id].updated_at = t]
    ELSE jt

repo_cancel_job(jt, id, t) ==
    IF jt[id].status \in {QUEUED, RUNNING, AWAITING_APPROVAL}
    THEN [jt EXCEPT ![id].status = CANCELED, ![id].updated_at = t, ![id].finished_at = t]
    ELSE jt

(* mutant: the UPDATE has no status guard *)
repo_approve_job_unguarded(jt, id, user_id, t) ==
    [jt EXCEPT ![id].status = QUEUED, ![id].approved_by = user_id, ![id].updated_at = t]

(* mutant: the UPDATE also matches a job that is already queued *)
repo_approve_job_requeue(jt, id, user_id, t) ==
    IF jt[id].status \in {AWAITING_APPROVAL, QUEUED}
    THEN [jt EXCEPT ![id].status = QUEUED, ![id].approved_by = user_id, ![id].updated_at = t]
    ELSE jt

(* mutant: the UPDATE also matches a job that was reserved before *)
repo_approve_job_reserved(jt, id, user_id, t) ==
    IF jt[id].status \in {AWAITING_APPROVAL, RUNNING, SUCCEEDED, FAILED, CANCELED}
    THEN [jt EXCEPT ![id].status = QUEUED, ![id].approved_by = user_id, ![id].updated_at = t]
    ELSE jt

repo_approve_job(jt, id, user_id, t) ==
    IF jt[id].status = AWAITING_APPROVAL
    THEN [jt EXCEPT ![id].status = QUEUED, ![id].approved_by = user_id, ![id].updated_at = t]
    ELSE jt

repo_reject_job(jt, id, user_id, t) ==
    IF jt[id].status = AWAITING_APPROVAL
    THEN [jt EXCEPT ![id].status = REJECTED, ![id].approved_by = user_id,
                    ![id].updated_at = t, ![id].finished_at = t]
    ELSE jt

append_event(ev, id, event_type) == [ev EXCEPT ![id] = Append(@, event_type)]

----------------------------------------------------------------------------
(* no setter of the runtime profile has been called *)
NoCall == [op |-> "none", args |-> <<>>, raised |-> FALSE, repeated |-> FALSE]

(* RuntimeProfile(): the field defaults of the dataclass *)
RuntimeProfile ==
    [model |-> NoText, reasoning_effort |-> NoText, sandbox_mode |-> NoText,
     approval_policy |-> NoText, web_search |-> NoText, experimental_features |-> {},
     personality |-> "none", personality_instruction |-> "", workdir_override |-> <<>>]

(* ApprovalPollStore() and ApprovalChecklistStore(): no token is tracked *)
EmptyStore == [by_id |-> {}, id_by_job |-> {}]

(* no update has been handled *)
NoUpdate == [kind |-> "none", user |-> NULL, job |-> NULL, task |-> NULL]

(* no boot template is set, no create call is in progress, the stores are   *)
(* empty, the guard has seen no command                                     *)
InitFrontEnd ==
    /\ boot_cmd = FALSE
    /\ boot_spawned = 0
    /\ create_pc = [c \in Creators |-> "idle"]
    /\ create_ret = [c \in Creators |-> "none"]
    /\ approval_polls = EmptyStore
    /\ approval_checklists = EmptyStore
    /\ approval_rows = {}
    /\ pending = {}
    /\ popped = {}
    /\ restarts = 0
    /\ last_seen = NULL
    /\ control_callers = {}
    /\ last_update = NoUpdate
    /\ active_session = NoText

(* nothing on disk, no artifact row, the profile of a new CodexExecutor, no  *)
(* plan constructed                                                          *)
InitServices ==
    /\ files = {}
    /\ artifacts = <<>>
    /\ collections = 0
    /\ runtime = RuntimeProfile
    /\ last_call = NoCall
    /\ template = <<>>
    /\ command = <<>>
    /\ passes = 0
    /\ InitFrontEnd

(* Initial state: empty tables, no worker task, the session not created,   *)
(* Orchestrator.start has created the dispatcher task                      *)

Init ==
    /\ jobs = <<>>
    /\ events = <<>>
    /\ running_tasks = {}
    /\ task_pc = <<>>
    /\ task_result = <<>>
    /\ must_cancel = {}
    /\ child = <<>>
    /\ child_rc = <<>>
    /\ session_active = FALSE
    /\ now = 0
    /\ stop_pc = "idle"
    /\ dispatch_alive = TRUE
    /\ dispatch_errors = 0
    /\ notifier_calls = <<>>
    /\ call_raised = {}
    /\ notifier_failures = {}
    /\ prompts = <<>>
    /\ approve_calls = <<>>
    /\ reject_calls = <<>>
    /\ cancel_calls = <<>>
    /\ approved_effect = {}
    /\ dead_awaiting = {}
    /\ executed = <<>>
    /\ reserved = <<>>
    /\ cancel_running = {}
    /\ terminal_writes = <<>>
    /\ db_lock = 0
    /\ caller_pc = [c \in Callers |-> "idle"]
    /\ caller_row = [c \in Callers |-> 0]
    /\ caller_ret = [c \in Callers |-> 0]
    /\ jobs0 = <<>>
    /\ InitServices


----------------------------------------------------------------------------
(* policy.py: a prompt is the sequence of its lower-cased words (the        *)
(* patterns are compiled with IGNORECASE); a pattern is a sequence of       *)
(* words that must follow each other, "*" standing for any word (a          *)
(* pattern ending in \s+ needs a word after it, the prompt being stripped). *)

HighPatterns ==
    << <<"rm", "-rf">>, <<"mkfs">>, <<"dd", "if=">>, <<"shutdown">>, <<"reboot">>,
       <<"userdel">>, <<"chown", "-r", "/">>, <<"chmod", "777", "/">>,
       <<"x:{:">>, <<":&};:x">> >>

MediumPatterns ==
    << <<"sudo">>, <<"rm">>, <<"git", "push">>, <<"docker", "run">>, <<"docker", "compose">>,
       <<"docker", "rm">>, <<"docker", "rmi">>, <<"docker", "exec">>, <<"systemctl">>,
       <<"apt", "*">>, <<"apt-get", "*">>, <<"yum", "*">>, <<"pacman", "*">>,
       <<"pip", "install">>, <<"npm", "install">>, <<"cargo", "install">>, <<"kubectl", "*">> >>

(* pattern.search(normalized) *)
pattern_search(pattern, prompt) ==
    \E i \in 1..Len(prompt) :
        /\ i + Len(pattern) - 1 <= Len(prompt)
        /\ \A k \in 1..Len(pattern) : pattern[k] = "*" \/ prompt[i + k - 1] = pattern[k]

first_match(patterns, prompt) ==
    LET hits == {n \in DOMAIN patterns : pattern_search(patterns[n], prompt)}
    IN  IF hits = {} THEN 0 ELSE CHOOSE n \in hits : \A m \in hits : n <= m

classify_prompt(prompt) ==
    IF prompt = <<>>
    THEN [level |-> "low", needs_approval |-> FALSE, reason |-> <<"empty prompt">>]
    ELSE IF first_match(HighPatterns, prompt) # 0
    THEN [level |-> "high", needs_approval |-> TRUE,
          reason |-> HighPatterns[first_match(HighPatterns, prompt)]]
    ELSE IF first_match(MediumPatterns, prompt) # 0
    THEN [level |-> "medium", needs_approval |-> TRUE,
          reason |-> MediumPatterns[first_match(MediumPatterns, prompt)]]
    ELSE [level |-> "low", needs_approval |-> FALSE, reason |-> <<"no risky patterns detected">>]

----------------------------------------------------------------------------
(* orchestrator.py: the facade.  Each method runs without suspension up to *)
(* its notifier call, after which it only returns the job; the call and    *)
(* its outcome are one step.  TelegramNotifier.send_text has no handler    *)
(* around bot.send_message and the facade has none around the notifier     *)
(* call: when the call does not deliver, the method raises.                *)

(* await self._notifier.<method>(...) at the end of a facade method *)
facade_notify(caller, job_id, calls, method, delivers) ==
    /\ notifier_calls' = [calls EXCEPT ![job_id] = Append(@, method)]
    /\ notifier_failures' = IF delivers THEN notifier_failures
                            ELSE notifier_failures \cup {<<caller, job_id>>}
    /\ call_raised' = IF delivers THEN call_raised ELSE call_raised \cup {caller}

(* mutant: every job starts queued *)
initial_status_queued(decision) == QUEUED

initial_status(decision) == IF decision.needs_approval THEN AWAITING_APPROVAL ELSE QUEUED

Orchestrator_submit_job(prompt, mode, delivers) ==
    /\ Len(jobs) < MaxJobs
    /\ LET decision == classify_prompt(prompt)
           session_name == IF mode = "session" THEN SessionName ELSE NoText
           id == Len(jobs) + 1
       IN  /\ jobs' = create_job(jobs, mode, session_name, decision.needs_approval,
                                 initial_status(decision), now)
           /\ events' = Append(events, IF decision.needs_approval
                                       THEN <<"job_submitted", "approval_required">>
                                       ELSE <<"job_submitted">>)
           /\ IF decision.needs_approval
              THEN facade_notify("submit_job", id, Append(notifier_calls, <<>>),
                                 "send_text", delivers)
              ELSE /\ notifier_calls' = Append(notifier_calls, <<>>)
                   /\ UNCHANGED <<notifier_failures, call_raised>>
    /\ prompts' = Append(prompts, prompt)
    /\ task_pc' = Append(task_pc, "none")
    /\ task_result' = Append(task_result, "pending")
    /\ child' = Append(child, "none")
    /\ child_rc' = Append(child_rc, NULL)
    /\ approve_calls' = Append(approve_calls, 0)
    /\ reject_calls' = Append(reject_calls, 0)
    /\ cancel_calls' = Append(cancel_calls, 0)
    /\ executed' = Append(executed, 0)
    /\ reserved' = Append(reserved, 0)
    /\ terminal_writes' = Append(terminal_writes, 0)
    /\ UNCHANGED <<running_tasks, must_cancel, session_active, now, approved_effect,
                   dead_awaiting, cancel_running>>
    /\ UNCHANGED life_vars
    /\ UNCHANGED caller_vars
    /\ UNCHANGED <<side_vars, sess_vars>>

submit_job(prompt, mode, delivers) ==
    /\ Orchestrator_submit_job(prompt, mode, delivers)
    /\ UNCHANGED <<store_vars, bot_vars>>

Orchestrator_approve_job(job_id, user_id) ==
    /\ job_id \in JobIds
    /\ ControlCalls < MaxControlCalls
    /\ jobs' = repo_approve_job(jobs, job_id, user_id, now)
    /\ events' = append_event(events, job_id, "job_approved")
    /\ approve_calls' = [approve_calls EXCEPT ![job_id] = @ + 1]
    /\ approved_effect' = IF jobs[job_id].status = AWAITING_APPROVAL
                             /\ jobs'[job_id].approved_by # NULL
                          THEN approved_effect \cup {job_id} ELSE approved_effect
    /\ UNCHANGED <<running_tasks, task_pc, task_result, must_cancel, child, child_rc,
                   session_active, now, reject_calls, cancel_calls, dead_awaiting, executed,
                   reserved, cancel_running, terminal_writes, prompts>>
    /\ UNCHANGED <<life_vars, note_vars>>
    /\ UNCHANGED caller_vars
    /\ UNCHANGED <<side_vars, sess_vars>>

approve_job(job_id, user_id) ==
    /\ Orchestrator_approve_job(job_id, user_id)
    /\ UNCHANGED <<store_vars, bot_vars>>

Orchestrator_reject_job(job_id, user_id, delivers) ==
    /\ job_id \in JobIds
    /\ ControlCalls < MaxControlCalls
    /\ jobs' = repo_reject_job(jobs, job_id, user_id, now)
    /\ events' = append_event(events, job_id, "job_rejected")
    /\ facade_notify("reject_job", job_id, notifier_calls, "send_job_status", delivers)
    /\ reject_calls' = [reject_calls EXCEPT ![job_id] = @ + 1]
    /\ dead_awaiting' = IF jobs[job_id].status = AWAITING_APPROVAL
                        THEN dead_awaiting \cup {job_id} ELSE dead_awaiting
    /\ terminal_writes' = IF jobs[job_id].status = AWAITING_APPROVAL
                          THEN [terminal_writes EXCEPT ![job_id] = @ + 1]
                          ELSE terminal_writes
    /\ UNCHANGED <<running_tasks, task_pc, task_result, must_cancel, child, child_rc,
                   session_active, now, approve_calls, cancel_calls, approved_effect, executed,
                   reserved, cancel_running, prompts>>
    /\ UNCHANGED life_vars
    /\ UNCHANGED caller_vars
    /\ UNCHANGED <<side_vars, sess_vars>>

reject_job(job_id, user_id, delivers) ==
    /\ Orchestrator_reject_job(job_id, user_id, delivers)
    /\ UNCHANGED <<store_vars, bot_vars>>

(* task = self._running_tasks.get(job_id); task.cancel() unless task.done() *)
task_cancel(mc, job_id) ==
    IF job_id \in running_tasks /\ task_pc[job_id] # "done"
    THEN mc \cup {job_id} ELSE mc

Orchestrator_cancel_job(job_id, delivers) ==
    /\ job_id \in JobIds
    /\ ControlCalls < MaxControlCalls
    /\ must_cancel' = task_cancel(must_cancel, job_id)
    /\ jobs' = repo_cancel_job(jobs, job_id, now)
    /\ events' = append_event(events, job_id, "job_canceled")
    /\ facade_notify("cancel_job", job_id, notifier_calls, "send_job_status", delivers)
    /\ cancel_calls' = [cancel_calls EXCEPT ![job_id] = @ + 1]
    /\ dead_awaiting' = IF jobs[job_id].status = AWAITING_APPROVAL
                        THEN dead_awaiting \cup {job_id} ELSE dead_awaiting
    /\ cancel_running' = IF jobs[job_id].status = RUNNING
                         THEN cancel_running \cup {job_id} ELSE cancel_running
    /\ terminal_writes' = IF jobs'[job_id] # jobs[job_id]
                          THEN [terminal_writes EXCEPT ![job_id] = @ + 1]
                          ELSE terminal_writes
    /\ UNCHANGED <<running_tasks, task_pc, task_result, child, child_rc, session_active, now,
                   approve_calls, reject_calls, approved_effect, executed, reserved, prompts>>
    /\ UNCHANGED life_vars
    /\ UNCHANGED caller_vars
    /\ UNCHANGED <<side_vars, sess_vars>>

cancel_job(job_id, delivers) ==
    /\ Orchestrator_cancel_job(job_id, delivers)
    /\ UNCHANGED <<store_vars, bot_vars>>

----------------------------------------------------------------------------
(* sessions.py *)

(* mutant: every session counts as active *)
is_session_active_any(name) == TRUE

is_session_active(name) == name = SessionName /\ session_active

session_create ==
    /\ ~session_active
    /\ session_active' = TRUE
    /\ UNCHANGED <<jobs, events, running_tasks, task_pc, task_result, must_cancel, child,
                   child_rc, now, approve_calls, reject_calls, cancel_calls, approved_effect,
                   dead_awaiting, executed, reserved, cancel_running, terminal_writes,
                   prompts>>
    /\ UNCHANGED <<life_vars, note_vars>>
    /\ UNCHANGED caller_vars
    /\ UNCHANGED svc_vars

session_stop ==
    /\ session_active
    /\ session_active' = FALSE
    /\ UNCHANGED <<jobs, events, running_tasks, task_pc, task_result, must_cancel, child,
                   child_rc, now, approve_calls, reject_calls, cancel_calls, approved_effect,
                   dead_awaiting, executed, reserved, cancel_running, terminal_writes,
                   prompts>>
    /\ UNCHANGED <<life_vars, note_vars>>
    /\ UNCHANGED caller_vars
    /\ UNCHANGED svc_vars

----------------------------------------------------------------------------
(* orchestrator.py: one iteration of _dispatch_loop.  The inner while loop *)
(* has no await: all its reservations happen in one step.                  *)

(* mutant: the loop reserves without looking at the running tasks *)
slot_free_always(tasks) == TRUE

(* while len(self._running_tasks) < self._settings.max_parallel_jobs *)
slot_free(tasks) == Cardinality(tasks) < max_parallel_jobs

RECURSIVE dispatch_reserve(_, _, _)
dispatch_reserve(jt, tasks, t) ==
    IF slot_free(tasks)
    THEN LET id == reserve_select(jt)
         IN  IF id = 0 \/ reserve_rowcount(jt, id) # 1
             THEN [jobs |-> jt, tasks |-> tasks]
             ELSE dispatch_reserve(reserve_update(jt, id, t), tasks \cup {id}, t)
    ELSE [jobs |-> jt, tasks |-> tasks]

(* the dispatcher task runs while it has not ended; Orchestrator.stop sets  *)
(* _stop_event and cancels it in one step                                   *)
dispatcher_runs == dispatch_alive /\ stop_pc = "idle"

dispatch_loop ==
    LET r == dispatch_reserve(jobs, running_tasks, now)
        new == r.tasks \ running_tasks
    IN  /\ dispatcher_runs
        /\ new # {}
        /\ jobs' = r.jobs
        /\ running_tasks' = r.tasks
        /\ task_pc' = [j \in DOMAIN task_pc |-> IF j \in new THEN "created" ELSE task_pc[j]]
        /\ reserved' = [j \in DOMAIN reserved |-> IF j \in new THEN reserved[j] + 1 ELSE reserved[j]]
        /\ UNCHANGED <<events, task_result, must_cancel, child, child_rc, session_active, now,
                       approve_calls, reject_calls, cancel_calls, approved_effect,
                       dead_awaiting, executed, cancel_running, terminal_writes, prompts>>
        /\ UNCHANGED <<life_vars, note_vars>>
        /\ UNCHANGED caller_vars
        /\ UNCHANGED svc_vars

(* mutant: the exception ends the dispatcher task *)
dispatch_except_propagates(alive) == FALSE

(* except Exception: logger.exception("dispatch loop error"), then the     *)
(* sleep and the next iteration                                             *)
dispatch_except(alive) == alive

(* an iteration in which reserve_next_runnable_job raises: the transaction  *)
(* is rolled back, no task is created.  The call is made only while a slot  *)
(* is free.                                                                 *)
dispatch_loop_error ==
    /\ dispatcher_runs
    /\ slot_free(running_tasks)
    /\ dispatch_errors < MaxDispatchErrors
    /\ dispatch_errors' = dispatch_errors + 1
    /\ dispatch_alive' = dispatch_except(dispatch_alive)
    /\ UNCHANGED <<jobs, events, running_tasks, task_pc, task_result, must_cancel, child,
                   child_rc, session_active, now, approve_calls, reject_calls, cancel_calls,
                   approved_effect, dead_awaiting, executed, reserved, cancel_running,
                   terminal_writes, prompts, stop_pc>>
    /\ UNCHANGED note_vars
    /\ UNCHANGED caller_vars
    /\ UNCHANGED svc_vars

----------------------------------------------------------------------------
(* orchestrator.py stop: sets the event and cancels the dispatcher, awaits *)
(* it, cancels every task of _running_tasks, awaits them all with gather   *)
(* and clears _running_tasks.                                              *)

stop_frame == <<jobs, events, task_pc, task_result, child, child_rc, session_active, now,
                approve_calls, reject_calls, cancel_calls, approved_effect, dead_awaiting,
                executed, reserved, cancel_running, terminal_writes, prompts, dispatch_errors>>

(* self._stop_event.set(); self._dispatch_task.cancel(); await it: the      *)
(* dispatcher is suspended in its sleep and ends at its next step           *)
stop_begin ==
    /\ stop_pc = "idle"
    /\ stop_pc' = "awaiting_dispatcher"
    /\ dispatch_alive' = FALSE
    /\ UNCHANGED <<running_tasks, must_cancel>>
    /\ UNCHANGED stop_frame
    /\ UNCHANGED note_vars
    /\ UNCHANGED caller_vars
    /\ UNCHANGED svc_vars

(* for task in tasks: task.cancel(); then await asyncio.gather(...).  stop   *)
(* resumes from awaiting the dispatcher after the event loop has run the    *)
(* steps scheduled before the dispatcher's last one, the first step of      *)
(* every task the dispatcher created among them.                            *)
stop_cancel_tasks ==
    /\ stop_pc = "awaiting_dispatcher"
    /\ \A j \in running_tasks : task_pc[j] # "created"
    /\ stop_pc' = "gathering"
    /\ must_cancel' = must_cancel \cup {j \in running_tasks : task_pc[j] # "done"}
    /\ UNCHANGED <<running_tasks, dispatch_alive>>
    /\ UNCHANGED stop_frame
    /\ UNCHANGED note_vars
    /\ UNCHANGED caller_vars
    /\ UNCHANGED svc_vars

(* gather returns once every task has ended; self._running_tasks.clear() *)
stop_finish ==
    /\ stop_pc = "gathering"
    /\ \A j \in running_tasks : task_pc[j] = "done"
    /\ stop_pc' = "stopped"
    /\ running_tasks' = {}
    /\ UNCHANGED <<must_cancel, dispatch_alive>>
    /\ UNCHANGED stop_frame
    /\ UNCHANGED note_vars
    /\ UNCHANGED caller_vars
    /\ UNCHANGED svc_vars

----------------------------------------------------------------------------
(* orchestrator.py _run_job and executor.py execute: the worker task.      *)
(* task_pc: "none" no task, "created" not yet started, "spawning" awaiting *)
(* create_subprocess_shell, "waiting" awaiting wait_for(proc.wait()),      *)
(* "reaping_timeout" / "reaping_cancel" awaiting proc.wait() after a kill, *)
(* "notify_status" awaiting send_job_status on the normal path,            *)
(* "notify_last" awaiting the last notifier call of a path, "done".        *)

worker_frame == <<running_tasks, session_active, now, approve_calls, reject_calls,
                  cancel_calls, approved_effect, dead_awaiting, reserved, cancel_running,
                  prompts, call_raised, life_vars>>

set_pc(j, pc) ==
    /\ task_pc' = [task_pc EXCEPT ![j] = pc]
    /\ UNCHANGED task_result

(* the coroutine of the task returns ("returned"), lets a CancelledError    *)
(* out ("cancelled") or lets another exception out ("exception")            *)
end_task(j, result) ==
    /\ task_pc' = [task_pc EXCEPT ![j] = "done"]
    /\ task_result' = [task_result EXCEPT ![j] = result]

(* the task takes a step: a pending cancellation is delivered to it *)
clear_cancel(j) == must_cancel' = must_cancel \ {j}

terminal_write(j) == terminal_writes' = [terminal_writes EXCEPT ![j] = @ + 1]

(* the worker calls a notifier method and awaits it *)
start_notify(j, method) == notifier_calls' = [notifier_calls EXCEPT ![j] = Append(@, method)]

(* the awaited notifier call raised into _run_job *)
notify_failed(j) == notifier_failures' = notifier_failures \cup {<<"_run_job", j>>}

(* except asyncio.CancelledError in _run_job *)
on_cancelled(j) ==
    /\ jobs' = set_job_status(jobs, j, CANCELED, "Job canceled while running", NoText,
                              EXIT_CANCELED, TRUE, now)
    /\ events' = append_event(events, j, "job_canceled_while_running")
    /\ terminal_write(j)
    /\ start_notify(j, "send_job_status")
    /\ set_pc(j, "notify_canceled")

(* except Exception in _run_job *)
on_exception(j) ==
    /\ jobs' = set_job_status(jobs, j, FAILED, "Executor raised an unexpected error",
                              "exception", EXIT_EXCEPTION, TRUE, now)
    /\ events' = append_event(events, j, "job_failed")
    /\ terminal_write(j)
    /\ start_notify(j, "send_job_status")
    /\ set_pc(j, "notify_last")

(* f"Session '{job.session_name}' is inactive" *)
inactive_error_text(session_name) == "Session '" \o session_name \o "' is inactive"

(* the session pre-check of _run_job failed *)
on_inactive_session(j) ==
    /\ jobs' = set_job_status(jobs, j, FAILED, "Session mode requested but session is inactive",
                              inactive_error_text(jobs[j].session_name),
                              EXIT_SESSION_INACTIVE, TRUE, now)
    /\ events' = append_event(events, j, "job_failed")
    /\ terminal_write(j)
    /\ start_notify(j, "send_job_status")
    /\ set_pc(j, "notify_last")

(* the terminal write of _run_job after the executor returned a result *)
on_result(j, exit_code, summary, error_text) ==
    /\ jobs' = IF exit_code = 0
               THEN set_job_status(jobs, j, SUCCEEDED, summary, NoText, exit_code, TRUE, now)
               ELSE set_job_status(jobs, j, FAILED, summary, error_text, exit_code, TRUE, now)
    /\ events' = append_event(events, j, IF exit_code = 0 THEN "job_succeeded" ELSE "job_failed")
    /\ terminal_write(j)
    /\ start_notify(j, "send_job_status")
    /\ set_pc(j, "notify_status")

(* the worker raised outside the try block of _run_job: the task ends, the row is untouched *)
on_worker_crash(j) ==
    /\ end_task(j, "exception")
    /\ UNCHANGED <<jobs, events, terminal_writes, notifier_calls>>

(* what follows the return of executor.execute: the result object is built  *)
(* by the executor ("executor_raises" when that fails), the artifact passes *)
(* and result.exec_cwd are evaluated before the terminal write              *)
(* ("collect_raises" when one of them fails)                                *)
PostOutcomes == {"result", "executor_raises", "collect_raises"}

after_execute(j, outcome, exit_code, summary, error_text) ==
    CASE outcome = "result" -> on_result(j, exit_code, summary, error_text)
      [] outcome = "executor_raises" -> on_exception(j)
      [] outcome = "collect_raises" -> on_worker_crash(j)

(* proc.kill() of the timeout handler of execute *)
timeout_kill(ch, j) == [ch EXCEPT ![j] = "killed"]

(* mutant: the cancellation handler re-raises without killing the child *)
cancel_kill_skipped(ch, j) == ch

(* if proc and proc.returncode is None: proc.kill() of the cancellation     *)
(* handler of execute                                                       *)
cancel_kill(ch, j) == IF ch[j] = "running" THEN [ch EXCEPT ![j] = "killed"] ELSE ch

(* first step of the task *)
run_job_start(j, raises) ==
    /\ j \in JobIds /\ task_pc[j] = "created"
    /\ clear_cancel(j)
    /\ IF j \in must_cancel
       THEN /\ end_task(j, "cancelled")
            /\ UNCHANGED <<jobs, events, terminal_writes, executed, notifier_calls>>
       ELSE IF jobs[j].mode = "session" /\ jobs[j].session_name # NoText
               /\ ~is_session_active(jobs[j].session_name)
       THEN /\ on_inactive_session(j)
            /\ UNCHANGED executed
       ELSE /\ executed' = [executed EXCEPT ![j] = @ + 1]
            /\ IF raises
               THEN /\ jobs' = set_job_status(jobs, j, FAILED, "Executor raised an unexpected error",
                                              "exception", EXIT_EXCEPTION, TRUE, now)
                    /\ events' = [events EXCEPT ![j] = @ \o <<"job_started", "job_failed">>]
                    /\ terminal_write(j)
                    /\ start_notify(j, "send_job_status")
                    /\ set_pc(j, "notify_last")
               ELSE /\ events' = append_event(events, j, "job_started")
                    /\ set_pc(j, "spawning")
                    /\ UNCHANGED <<jobs, terminal_writes, notifier_calls>>
    /\ UNCHANGED <<child, child_rc, notifier_failures>>
    /\ UNCHANGED worker_frame
    /\ UNCHANGED caller_vars
    /\ UNCHANGED svc_vars

(* create_subprocess_shell returns, raises, or is cancelled: asyncio has    *)
(* started the process before its first suspension and, when cancelled      *)
(* there, closes the transport, which kills the process                     *)
run_job_spawned(j, raises) ==
    /\ j \in JobIds /\ task_pc[j] = "spawning"
    /\ clear_cancel(j)
    /\ IF j \in must_cancel
       THEN on_cancelled(j) /\ child' = [child EXCEPT ![j] = "killed"]
       ELSE IF raises
       THEN on_exception(j) /\ UNCHANGED child
       ELSE /\ child' = [child EXCEPT ![j] = "running"]
            /\ set_pc(j, "waiting")
            /\ UNCHANGED <<jobs, events, terminal_writes, notifier_calls>>
    /\ UNCHANGED <<child_rc, executed, notifier_failures>>
    /\ UNCHANGED worker_frame
    /\ UNCHANGED caller_vars
    /\ UNCHANGED svc_vars

(* the agent CLI exits by itself *)
child_exits(j, rc) ==
    /\ j \in JobIds /\ task_pc[j] = "waiting" /\ child[j] = "running"
    /\ child' = [child EXCEPT ![j] = "exited"]
    /\ child_rc' = [child_rc EXCEPT ![j] = rc]
    /\ UNCHANGED <<jobs, events, task_pc, task_result, must_cancel, terminal_writes, executed,
                   notifier_calls, notifier_failures>>
    /\ UNCHANGED worker_frame
    /\ UNCHANGED caller_vars
    /\ UNCHANGED svc_vars

(* wait_for returns the child's return code.  With a cancellation pending  *)
(* this is wait_for's branch "if fut.done(): return fut.result()".         *)
wait_for_returns(j) == task_pc[j] = "waiting" /\ child[j] = "exited"

run_job_child_exited(j, outcome) ==
    /\ j \in JobIds /\ wait_for_returns(j)
    /\ clear_cancel(j)
    /\ after_execute(j, outcome, child_rc[j],
                     IF child_rc[j] = 0 THEN "summary" ELSE "Execution failed.",
                     IF child_rc[j] = 0 THEN NoText ELSE "stderr tail")
    /\ UNCHANGED <<child, child_rc, executed, notifier_failures>>
    /\ UNCHANGED worker_frame
    /\ UNCHANGED caller_vars
    /\ UNCHANGED svc_vars

(* CancelledError is raised at wait_for: except asyncio.CancelledError of execute *)
run_job_wait_cancelled(j) ==
    /\ j \in JobIds /\ task_pc[j] = "waiting" /\ j \in must_cancel
    /\ clear_cancel(j)
    /\ IF child[j] = "running"
       THEN /\ child' = cancel_kill(child, j)
            /\ set_pc(j, "reaping_cancel")
            /\ UNCHANGED <<jobs, events, terminal_writes, notifier_calls>>
       ELSE on_cancelled(j) /\ UNCHANGED child
    /\ UNCHANGED <<child_rc, executed, notifier_failures>>
    /\ UNCHANGED worker_frame
    /\ UNCHANGED caller_vars
    /\ UNCHANGED svc_vars

(* except asyncio.TimeoutError of execute: proc.kill() *)
run_job_timeout(j) ==
    /\ j \in JobIds /\ task_pc[j] = "waiting" /\ child[j] = "running"
    /\ j \notin must_cancel
    /\ child' = timeout_kill(child, j)
    /\ set_pc(j, "reaping_timeout")
    /\ UNCHANGED <<jobs, events, must_cancel, child_rc, terminal_writes, executed,
                   notifier_calls, notifier_failures>>
    /\ UNCHANGED worker_frame
    /\ UNCHANGED caller_vars
    /\ UNCHANGED svc_vars

(* await proc.wait() after the timeout kill returns, or is cancelled *)
run_job_timeout_reaped(j, outcome) ==
    /\ j \in JobIds /\ task_pc[j] = "reaping_timeout"
    /\ clear_cancel(j)
    /\ IF j \in must_cancel
       THEN /\ set_pc(j, "reaping_cancel")
            /\ UNCHANGED <<jobs, events, terminal_writes, notifier_calls>>
       ELSE after_execute(j, outcome, EXIT_TIMEOUT, "Timed out while executing Codex command",
                          "Job exceeded timeout limit")
    /\ UNCHANGED <<child, child_rc, executed, notifier_failures>>
    /\ UNCHANGED worker_frame
    /\ UNCHANGED caller_vars
    /\ UNCHANGED svc_vars

(* await proc.wait() after the cancellation kill ends: execute re-raises *)
run_job_cancel_reaped(j) ==
    /\ j \in JobIds /\ task_pc[j] = "reaping_cancel"
    /\ clear_cancel(j)
    /\ on_cancelled(j)
    /\ UNCHANGED <<child, child_rc, executed, notifier_failures>>
    /\ UNCHANGED worker_frame
    /\ UNCHANGED caller_vars
    /\ UNCHANGED svc_vars

(* send_job_status of the normal path ends: it returns and send_artifacts   *)
(* is called, or it raises, or the task is cancelled in it                  *)
run_job_notified(j, delivers) ==
    /\ j \in JobIds /\ task_pc[j] = "notify_status"
    /\ clear_cancel(j)
    /\ IF j \in must_cancel
       THEN end_task(j, "cancelled") /\ UNCHANGED <<notifier_calls, notifier_failures>>
       ELSE IF ~delivers
       THEN end_task(j, "exception") /\ notify_failed(j) /\ UNCHANGED notifier_calls
       ELSE /\ start_notify(j, "send_artifacts")
            /\ set_pc(j, "notify_last")
            /\ UNCHANGED notifier_failures
    /\ UNCHANGED <<jobs, events, child, child_rc, terminal_writes, executed>>
    /\ UNCHANGED worker_frame
    /\ UNCHANGED caller_vars
    /\ UNCHANGED svc_vars

(* the last notifier call of the path ends: the task returns, re-raises the *)
(* CancelledError it handled, or lets the notifier's exception out.         *)
(* send_artifacts handles the exceptions of its sends itself.               *)
run_job_finish(j, delivers) ==
    /\ j \in JobIds /\ task_pc[j] \in {"notify_last", "notify_canceled"}
    /\ clear_cancel(j)
    /\ IF j \in must_cancel
       THEN end_task(j, "cancelled") /\ UNCHANGED notifier_failures
       ELSE IF ~delivers /\ Last(notifier_calls[j]) = "send_job_status"
       THEN end_task(j, "exception") /\ notify_failed(j)
       ELSE /\ end_task(j, IF task_pc[j] = "notify_canceled" THEN "cancelled" ELSE "returned")
            /\ UNCHANGED notifier_failures
    /\ UNCHANGED <<jobs, events, child, child_rc, terminal_writes, executed, notifier_calls>>
    /\ UNCHANGED worker_frame
    /\ UNCHANGED caller_vars
    /\ UNCHANGED svc_vars

(* task.add_done_callback(... self._running_tasks.pop(job_id, None)) *)
task_done_callback(j) ==
    /\ j \in running_tasks /\ task_pc[j] = "done"
    /\ running_tasks' = running_tasks \ {j}
    /\ UNCHANGED <<jobs, events, task_pc, task_result, must_cancel, child, child_rc,
                   session_active, now, approve_calls, reject_calls, cancel_calls,
                   approved_effect, dead_awaiting, executed, reserved, cancel_running,
                   terminal_writes, prompts>>
    /\ UNCHANGED <<life_vars, note_vars>>
    /\ UNCHANGED caller_vars
    /\ UNCHANGED svc_vars

----------------------------------------------------------------------------
(* The notifier delivers and the prompts are one harmless and one risky one *)
RunPrompts == { <<"list", "files">>, <<"sudo", "reboot">> }

Next ==
    \/ \E prompt \in RunPrompts, mode \in JobMode : submit_job(prompt, mode, TRUE)
    \/ \E j \in JobIds, u \in Users : approve_job(j, u)
    \/ \E j \in JobIds, u \in Users : reject_job(j, u, TRUE)
    \/ \E j \in JobIds : cancel_job(j, TRUE)
    \/ session_create
    \/ session_stop
    \/ dispatch_loop
    \/ \E j \in JobIds, raises \in BOOLEAN : run_job_start(j, raises)
    \/ \E j \in JobIds, raises \in BOOLEAN : run_job_spawned(j, raises)
    \/ \E j \in JobIds, rc \in ChildExitCodes : child_exits(j, rc)
    \/ \E j \in JobIds, outcome \in PostOutcomes : run_job_child_exited(j, outcome)
    \/ \E j \in JobIds : run_job_wait_cancelled(j)
    \/ \E j \in JobIds : run_job_timeout(j)
    \/ \E j \in JobIds, outcome \in PostOutcomes : run_job_timeout_reaped(j, outcome)
    \/ \E j \in JobIds : run_job_cancel_reaped(j)
    \/ \E j \in JobIds : run_job_notified(j, TRUE)
    \/ \E j \in JobIds : run_job_finish(j, TRUE)
    \/ \E j \in JobIds : task_done_callback(j)

Spec == Init /\ [][Next]_vars


----------------------------------------------------------------------------
(* repository.py reserve_next_runnable_job called by concurrent callers on  *)
(* one Repository: Database.transaction holds Database._lock from BEGIN     *)
(* IMMEDIATE to the commit, so the SELECT and the UPDATE of one call are    *)
(* two steps that no other call's statement separates.                      *)

ReserveRows ==
    { [status |-> st, mode |-> "ephemeral", session_name |-> NoText,
       needs_approval |-> na, approved_by |-> ab, updated_at |-> 0,
       started_at |-> IF st = RUNNING THEN 0 ELSE NULL,
       finished_at |-> IF st = CANCELED THEN 0 ELSE NULL,
       exit_code |-> NULL, summary_text |-> NoText, error_text |-> NoText] :
      st \in {QUEUED, AWAITING_APPROVAL, RUNNING, CANCELED},
      na \in BOOLEAN, ab \in {NULL, 1} }

ReserveTables ==
    UNION { [1..n -> {r \in ReserveRows :
                        /\ r.status = AWAITING_APPROVAL => r.approved_by = NULL
                        /\ r.status = RUNNING => (~r.needs_approval \/ r.approved_by # NULL)}] :
            n \in 1..MaxJobs }

InitReserve ==
    /\ jobs \in ReserveTables
    /\ jobs0 = jobs
    /\ events = [j \in DOMAIN jobs |-> <<"job_submitted">>]
    /\ running_tasks = {}
    /\ task_pc = [j \in DOMAIN jobs |-> "none"]
    /\ task_result = [j \in DOMAIN jobs |-> "pending"]
    /\ stop_pc = "idle"
    /\ dispatch_alive = TRUE
    /\ dispatch_errors = 0
    /\ notifier_calls = [j \in DOMAIN jobs |-> <<>>]
    /\ call_raised = {}
    /\ notifier_failures = {}
    /\ prompts = [j \in DOMAIN jobs |-> <<"list", "files">>]
    /\ must_cancel = {}
    /\ child = [j \in DOMAIN jobs |-> "none"]
    /\ child_rc = [j \in DOMAIN jobs |-> NULL]
    /\ session_active = FALSE
    /\ now = 0
    /\ approve_calls = [j \in DOMAIN jobs |-> 0]
    /\ reject_calls = [j \in DOMAIN jobs |-> 0]
    /\ cancel_calls = [j \in DOMAIN jobs |-> 0]
    /\ approved_effect = {}
    /\ dead_awaiting = {}
    /\ executed = [j \in DOMAIN jobs |-> 0]
    /\ reserved = [j \in DOMAIN jobs |-> 0]
    /\ cancel_running = {}
    /\ terminal_writes = [j \in DOMAIN jobs |-> 0]
    /\ db_lock = 0
    /\ caller_pc = [c \in Callers |-> "idle"]
    /\ caller_row = [c \in Callers |-> 0]
    /\ caller_ret = [c \in Callers |-> 0]
    /\ InitServices

(* with self._lock: BEGIN IMMEDIATE *)
lock_free == db_lock = 0

(* the caller enters the transaction and runs the SELECT *)
reserve_begin(c) ==
    /\ caller_pc[c] = "idle"
    /\ lock_free
    /\ db_lock' = c
    /\ caller_row' = [caller_row EXCEPT ![c] = reserve_select(jobs)]
    /\ caller_pc' = [caller_pc EXCEPT ![c] = "in_tx"]
    /\ UNCHANGED <<jobs, caller_ret, jobs0>>
    /\ UNCHANGED orch_vars
    /\ UNCHANGED svc_vars

(* the caller runs the UPDATE, commits, releases the lock and returns *)
reserve_commit(c) ==
    /\ caller_pc[c] = "in_tx"
    /\ db_lock = c
    /\ LET id == caller_row[c]
       IN  IF id # 0 /\ reserve_rowcount(jobs, id) = 1
           THEN /\ jobs' = reserve_update(jobs, id, now)
                /\ caller_ret' = [caller_ret EXCEPT ![c] = id]
           ELSE /\ jobs' = jobs
                /\ caller_ret' = [caller_ret EXCEPT ![c] = 0]
    /\ db_lock' = 0
    /\ caller_pc' = [caller_pc EXCEPT ![c] = "returned"]
    /\ UNCHANGED <<caller_row, jobs0>>
    /\ UNCHANGED orch_vars
    /\ UNCHANGED svc_vars

NextReserve ==
    \/ \E c \in Callers : reserve_begin(c)
    \/ \E c \in Callers : reserve_commit(c)

SpecReserve == InitReserve /\ [][NextReserve]_vars

----------------------------------------------------------------------------
(* The orchestrator with a notifier that may fail and the prompts of the    *)
(* risk policy's classes: ephemeral jobs, the executor returns a result.    *)

Prompts ==
    { <<>>, <<"list", "files">>, <<"rm", "notes">>, <<"rm", "-rf", "build">>,
      <<"sudo", "reboot">>, <<"git", "push">>, <<"apt">>, <<"apt", "update">> }

NextNotifier ==
    \/ \E prompt \in Prompts, delivers \in BOOLEAN :
          Len(jobs) < MaxNotifierJobs /\ submit_job(prompt, "ephemeral", delivers)
    \/ \E j \in JobIds, u \in Users : approve_job(j, u)
    \/ \E j \in JobIds, u \in Users, delivers \in BOOLEAN : reject_job(j, u, delivers)
    \/ \E j \in JobIds, delivers \in BOOLEAN : cancel_job(j, delivers)
    \/ dispatch_loop
    \/ \E j \in JobIds, raises \in BOOLEAN : run_job_start(j, raises)
    \/ \E j \in JobIds, raises \in BOOLEAN : run_job_spawned(j, raises)
    \/ \E j \in JobIds, rc \in ChildExitCodes : child_exits(j, rc)
    \/ \E j \in JobIds : run_job_child_exited(j, "result")
    \/ \E j \in JobIds : run_job_wait_cancelled(j)
    \/ \E j \in JobIds : run_job_timeout(j)
    \/ \E j \in JobIds : run_job_timeout_reaped(j, "result")
    \/ \E j \in JobIds : run_job_cancel_reaped(j)
    \/ \E j \in JobIds, delivers \in BOOLEAN : run_job_notified(j, delivers)
    \/ \E j \in JobIds, delivers \in BOOLEAN : run_job_finish(j, delivers)
    \/ \E j \in JobIds : task_done_callback(j)

SpecNotifier == Init /\ [][NextNotifier]_vars

----------------------------------------------------------------------------
(* The life cycle of the orchestrator: low-risk ephemeral jobs, cancel,     *)
(* dispatcher iterations that raise, and stop.                              *)

NextLifecycle ==
    \/ submit_job(<<"list", "files">>, "ephemeral", TRUE)
    \/ \E j \in JobIds : cancel_job(j, TRUE)
    \/ dispatch_loop
    \/ dispatch_loop_error
    \/ stop_begin
    \/ stop_cancel_tasks
    \/ stop_finish
    \/ \E j \in JobIds, raises \in BOOLEAN : run_job_start(j, raises)
    \/ \E j \in JobIds, raises \in BOOLEAN : run_job_spawned(j, raises)
    \/ \E j \in JobIds, rc \in ChildExitCodes : child_exits(j, rc)
    \/ \E j \in JobIds, outcome \in PostOutcomes : run_job_child_exited(j, outcome)
    \/ \E j \in JobIds : run_job_wait_cancelled(j)
    \/ \E j \in JobIds : run_job_timeout(j)
    \/ \E j \in JobIds, outcome \in PostOutcomes : run_job_timeout_reaped(j, outcome)
    \/ \E j \in JobIds : run_job_cancel_reaped(j)
    \/ \E j \in JobIds : run_job_notified(j, TRUE)
    \/ \E j \in JobIds : run_job_finish(j, TRUE)
    \/ \E j \in JobIds : task_done_callback(j)

SpecLifecycle == Init /\ [][NextLifecycle]_vars

----------------------------------------------------------------------------
(* Progress: the dispatcher runs (stop is never called), nobody cancels,    *)
(* every child exits or is killed by the timeout.  The event loop runs      *)
(* every task that is ready, and the dispatcher wakes from every sleep:     *)
(* weak fairness of the dispatcher iteration and of each worker's steps.    *)

worker_step(j) ==
    \/ \E raises \in BOOLEAN : run_job_start(j, raises)
    \/ \E raises \in BOOLEAN : run_job_spawned(j, raises)
    \/ \E rc \in ChildExitCodes : child_exits(j, rc)
    \/ \E outcome \in PostOutcomes : run_job_child_exited(j, outcome)
    \/ run_job_timeout(j)
    \/ \E outcome \in PostOutcomes : run_job_timeout_reaped(j, outcome)
    \/ run_job_notified(j, TRUE)
    \/ run_job_finish(j, TRUE)
    \/ task_done_callback(j)

NextLive ==
    \/ \E prompt \in RunPrompts : submit_job(prompt, "ephemeral", TRUE)
    \/ \E j \in JobIds, u \in Users : approve_job(j, u)
    \/ dispatch_loop
    \/ \E j \in JobIds : worker_step(j)

SpecLive ==
    /\ Init /\ [][NextLive]_vars
    /\ WF_vars(dispatch_loop)
    /\ \A j \in 1..MaxJobs : WF_vars(worker_step(j))

----------------------------------------------------------------------------
(* The orchestrator under a clock that advances: _now_iso reads the wall    *)
(* clock at every write; between two steps of the event loop any amount of  *)
(* time may pass, and the clock is taken not to be set back.                *)

Tick ==
    /\ now < MaxClock
    /\ now' = now + 1
    /\ UNCHANGED <<jobs, events, running_tasks, task_pc, task_result, must_cancel, child,
                   child_rc, session_active, approve_calls, reject_calls, cancel_calls,
                   approved_effect, dead_awaiting, executed, reserved, cancel_running,
                   terminal_writes, prompts>>
    /\ UNCHANGED <<life_vars, note_vars>>
    /\ UNCHANGED caller_vars
    /\ UNCHANGED svc_vars

NextClock ==
    \/ Tick
    \/ submit_job(<<"list", "files">>, "ephemeral", TRUE)
    \/ \E j \in JobIds : cancel_job(j, TRUE)
    \/ dispatch_loop
    \/ \E j \in JobIds, raises \in BOOLEAN : run_job_start(j, raises)
    \/ \E j \in JobIds, raises \in BOOLEAN : run_job_spawned(j, raises)
    \/ \E j \in JobIds, rc \in ChildExitCodes : child_exits(j, rc)
    \/ \E j \in JobIds : run_job_child_exited(j, "result")
    \/ \E j \in JobIds : run_job_wait_cancelled(j)
    \/ \E j \in JobIds : run_job_timeout(j)
    \/ \E j \in JobIds : run_job_timeout_reaped(j, "result")
    \/ \E j \in JobIds : run_job_cancel_reaped(j)
    \/ \E j \in JobIds : run_job_notified(j, TRUE)
    \/ \E j \in JobIds : run_job_finish(j, TRUE)
    \/ \E j \in JobIds : task_done_callback(j)

SpecClock == Init /\ [][NextClock]_vars

----------------------------------------------------------------------------
(* artifacts.py and video.py.  A path is the sequence of its components; a  *)
(* file on disk is an entry with its path, the path it resolves to (its     *)
(* own path unless it is a symbolic link) and the size stat reports, which  *)
(* is the size of the file the path resolves to.  _run_job calls the        *)
(* run-directory scan and then the output-text scan after the executor      *)
(* returned (orchestrator.py 266-277); the bot calls generate_for_job for   *)
(* /video.  Here the operations are called in any order.                    *)

MaxCollections == 3

MaxFiles == 3

max_artifact_bytes == 4

allowed_artifact_extensions ==
    {".txt", ".log", ".json", ".png", ".jpg", ".jpeg", ".gif", ".webp", ".mp4", ".pdf"}

runs_dir == <<"data", "runs">>

codex_workdir == <<"srv", "work">>

codex_allowed_workdirs == { <<"srv", "work">>, <<"srv", "shared">> }

(* run_dir = self._settings.runs_dir / str(job.id) *)
run_dir(job_id) == runs_dir \o <<ToString(job_id)>>

Entry(path, target, size) == [path |-> path, target |-> target, size |-> size]

(* the files an agent run can leave behind, in the order of sorted(rglob) *)
AgentFiles ==
    << Entry(run_dir(1) \o <<"IMG.PNG">>, run_dir(1) \o <<"IMG.PNG">>, 3),
       Entry(run_dir(1) \o <<"README">>, run_dir(1) \o <<"README">>, 3),
       Entry(run_dir(1) \o <<"big.txt">>, run_dir(1) \o <<"big.txt">>, max_artifact_bytes + 1),
       Entry(run_dir(1) \o <<"empty.txt">>, run_dir(1) \o <<"empty.txt">>, 0),
       Entry(run_dir(1) \o <<"link.txt">>, <<"etc", "secret.key">>, 3),
       Entry(run_dir(1) \o <<"out.txt">>, run_dir(1) \o <<"out.txt">>, 3),
       Entry(run_dir(1) \o <<"tool.exe">>, run_dir(1) \o <<"tool.exe">>, 3),
       Entry(codex_workdir \o <<"report.pdf">>, codex_workdir \o <<"report.pdf">>, 3),
       Entry(codex_workdir \o <<"wl.txt">>, <<"etc", "note.txt">>, 1) >>

(* output_path = run_dir / "recap.mp4", written by ffmpeg *)
RecapFile(job_id) == Entry(run_dir(job_id) \o <<"recap.mp4">>, run_dir(job_id) \o <<"recap.mp4">>, 3)

(* every path that can be on disk, sorted as sorted(run_dir.rglob("*")) sorts *)
SortedPaths ==
    << run_dir(1) \o <<"IMG.PNG">>, run_dir(1) \o <<"README">>, run_dir(1) \o <<"big.txt">>,
       run_dir(1) \o <<"empty.txt">>, run_dir(1) \o <<"link.txt">>, run_dir(1) \o <<"out.txt">>,
       run_dir(1) \o <<"recap.mp4">>, run_dir(1) \o <<"tool.exe">>,
       run_dir(2) \o <<"recap.mp4">>,
       codex_workdir \o <<"report.pdf">>, codex_workdir \o <<"wl.txt">> >>

(* Path.suffix of the final component *)
suffix(path) ==
    CASE Last(path) \in {"big.txt", "empty.txt", "link.txt", "out.txt", "wl.txt", "note.txt"} -> ".txt"
      [] Last(path) = "IMG.PNG" -> ".PNG"
      [] Last(path) = "tool.exe" -> ".exe"
      [] Last(path) = "secret.key" -> ".key"
      [] Last(path) = "report.pdf" -> ".pdf"
      [] Last(path) = "recap.mp4" -> ".mp4"
      [] OTHER -> ""

(* str.lower on the strings of the model *)
lower(text) ==
    CASE text = ".PNG" -> ".png"
      [] text = "HIGH" -> "high"
      [] text = "Read-Only" -> "read-only"
      [] text = "Never" -> "never"
      [] text = "Cached" -> "cached"
      [] text = "Friendly" -> "friendly"
      [] text = "Concise" -> "concise"
      [] text = "Custom" -> "custom"
      [] text = "Web" -> "web"
      [] text = "Search" -> "search"
      [] OTHER -> text

kind_for_extension(ext) ==
    CASE ext \in {".png", ".jpg", ".jpeg", ".gif", ".webp"} -> "image"
      [] ext \in {".mp4", ".webm"} -> "video"
      [] ext \in {".log", ".txt", ".json"} -> "log"
      [] ext = ".pdf" -> "document"
      [] OTHER -> "file"

(* path.exists() and path.is_file(): both follow symbolic links *)
is_file(fs, path) == \E e \in fs : e.path = path \/ e.target = path

(* Path.resolve(): the path with symbolic links followed *)
resolve(fs, path) ==
    IF \E e \in fs : e.path = path THEN (CHOOSE e \in fs : e.path = path).target ELSE path

(* path.stat().st_size *)
st_size(fs, path) == (CHOOSE e \in fs : e.path = path \/ e.target = path).size

(* path.relative_to(root) does not raise *)
is_relative_to(path, root) ==
    Len(root) <= Len(path) /\ SubSeq(path, 1, Len(root)) = root

add_artifact(arts, job_id, kind, path, size_bytes) ==
    Append(arts, [job_id |-> job_id, kind |-> kind, path |-> path, size_bytes |-> size_bytes])

(* the table after register_file; the call returned None when it is unchanged *)
register_file(arts, fs, job_id, path, kind) ==
    IF ~is_file(fs, path) THEN arts
    ELSE LET ext == lower(suffix(path))
             size == st_size(fs, path)
         IN  IF ext # "" /\ ext \notin allowed_artifact_extensions THEN arts
             ELSE IF size = 0 THEN arts
             ELSE IF size > max_artifact_bytes THEN arts
             ELSE add_artifact(arts, job_id,
                               IF kind # NoText THEN kind ELSE kind_for_extension(ext),
                               resolve(fs, path), size)

(* for candidate in sorted(run_dir.rglob("*")), from position i on *)
RECURSIVE scan_run_dir(_, _, _, _, _)
scan_run_dir(arts, fs, job_id, dir, i) ==
    IF i > Len(SortedPaths) THEN arts
    ELSE IF is_relative_to(SortedPaths[i], dir) /\ (\E e \in fs : e.path = SortedPaths[i])
    THEN scan_run_dir(register_file(arts, fs, job_id, SortedPaths[i], NoText), fs, job_id, dir, i + 1)
    ELSE scan_run_dir(arts, fs, job_id, dir, i + 1)

list_artifacts(arts, job_id) == {i \in DOMAIN arts : arts[i].job_id = job_id}

(* a text is the sequence of the path tokens the two patterns find in it;   *)
(* _iter_path_candidates yields each distinct token once, in order          *)
RECURSIVE iter_path_candidates(_, _)
iter_path_candidates(text, seen) ==
    IF text = <<>> THEN <<>>
    ELSE IF Head(text) \in seen THEN iter_path_candidates(Tail(text), seen)
    ELSE <<Head(text)>> \o iter_path_candidates(Tail(text), seen \cup {Head(text)})

(* the lexical part of Path.resolve(): ".." leaves a directory *)
RECURSIVE normalize(_, _)
normalize(done, rest) ==
    IF rest = <<>> THEN done
    ELSE IF Head(rest) = "." THEN normalize(done, Tail(rest))
    ELSE IF Head(rest) = ".."
    THEN normalize(IF done = <<>> THEN done ELSE SubSeq(done, 1, Len(done) - 1), Tail(rest))
    ELSE normalize(Append(done, Head(rest)), Tail(rest))

is_under_any_root(path, roots) == \E root \in roots : is_relative_to(path, root)

(* the resolved path of the candidate, or <<>> for None *)
resolve_candidate(fs, candidate, base_dir, roots) ==
    IF candidate.kind = "url" THEN <<>>
    ELSE LET raw == IF candidate.kind = "abs" THEN normalize(<<>>, candidate.parts)
                    ELSE normalize(base_dir, candidate.parts)
             resolved == resolve(fs, raw)
         IN  IF ~is_file(fs, resolved) THEN <<>>
             ELSE IF ~is_under_any_root(resolved, roots) THEN <<>>
             ELSE resolved

(* the loop of collect_from_output_texts over the candidates of one text *)
RECURSIVE collect_candidates(_, _, _, _, _, _, _)
collect_candidates(arts, fs, job_id, cands, existing_paths, base_dir, roots) ==
    IF cands = <<>> THEN arts
    ELSE LET resolved == resolve_candidate(fs, Head(cands), base_dir, roots)
             added == register_file(arts, fs, job_id, resolved, NoText)
         IN  IF resolved = <<>> \/ resolved \in existing_paths
             THEN collect_candidates(arts, fs, job_id, Tail(cands), existing_paths, base_dir, roots)
             ELSE IF added = arts
             THEN collect_candidates(arts, fs, job_id, Tail(cands), existing_paths, base_dir, roots)
             ELSE collect_candidates(added, fs, job_id, Tail(cands),
                                     existing_paths \cup {resolved}, base_dir, roots)

Rel(parts) == [kind |-> "rel", parts |-> parts]

Abs(parts) == [kind |-> "abs", parts |-> parts]

(* the output texts of an agent run *)
OutputTexts ==
    { << Rel(<<"report.pdf">>), Rel(<<"wl.txt">>), Abs(<<"etc", "secret.key">>),
         [kind |-> "url", parts |-> <<>>],
         Rel(<<"..", "..", "data", "runs", "1", "out.txt">>) >>,
      << Rel(<<"report.pdf">>), Abs(codex_workdir \o <<"report.pdf">>), Rel(<<"report.pdf">>),
         Abs(run_dir(1) \o <<"README">>), Rel(<<"missing.txt">>) >> }

art_frame == <<jobs, orch_vars, caller_vars, runtime, last_call, template, command, passes,
              sess_vars, store_vars, bot_vars>>

collect_from_run_dir(job_id) ==
    /\ job_id \in JobIds
    /\ collections < MaxCollections
    /\ collections' = collections + 1
    /\ artifacts' = scan_run_dir(artifacts, files, job_id, run_dir(job_id), 1)
    /\ UNCHANGED files
    /\ UNCHANGED art_frame

(* called as _run_job calls it: base_dir the working directory, roots the   *)
(* allowed workdirs and the runs directory                                  *)
collect_from_output_texts(job_id, text) ==
    /\ job_id \in JobIds
    /\ collections < MaxCollections
    /\ collections' = collections + 1
    /\ artifacts' = collect_candidates(artifacts, files, job_id, iter_path_candidates(text, {}),
                                       {resolve(files, artifacts[i].path) :
                                           i \in list_artifacts(artifacts, job_id)},
                                       codex_workdir, codex_allowed_workdirs \cup {runs_dir})
    /\ UNCHANGED files
    /\ UNCHANGED art_frame

(* ffmpeg writes recap.mp4 into the run directory and the file is           *)
(* registered, or ffmpeg fails and VideoError is raised                     *)
generate_for_job(job_id, ffmpeg_ok) ==
    /\ job_id \in JobIds
    /\ collections < MaxCollections
    /\ collections' = collections + 1
    /\ IF ffmpeg_ok
       THEN /\ files' = files \cup {RecapFile(job_id)}
            /\ artifacts' = register_file(artifacts, files \cup {RecapFile(job_id)}, job_id,
                                          RecapFile(job_id).path, "video")
       ELSE UNCHANGED <<files, artifacts>>
    /\ UNCHANGED art_frame

(* the state of an orchestrator that is idle with the jobs table jt *)
IdleWithPrompts(jt, job_prompts) ==
    /\ jobs = jt
    /\ jobs0 = <<>>
    /\ events = [j \in DOMAIN jt |-> <<"job_submitted">>]
    /\ running_tasks = {}
    /\ task_pc = [j \in DOMAIN jt |-> "none"]
    /\ task_result = [j \in DOMAIN jt |-> "pending"]
    /\ stop_pc = "idle"
    /\ dispatch_alive = TRUE
    /\ dispatch_errors = 0
    /\ notifier_calls = [j \in DOMAIN jt |-> <<>>]
    /\ call_raised = {}
    /\ notifier_failures = {}
    /\ prompts = job_prompts
    /\ must_cancel = {}
    /\ child = [j \in DOMAIN jt |-> "none"]
    /\ child_rc = [j \in DOMAIN jt |-> NULL]
    /\ session_active = FALSE
    /\ now = 0
    /\ approve_calls = [j \in DOMAIN jt |-> 0]
    /\ reject_calls = [j \in DOMAIN jt |-> 0]
    /\ cancel_calls = [j \in DOMAIN jt |-> 0]
    /\ approved_effect = {}
    /\ dead_awaiting = {}
    /\ executed = [j \in DOMAIN jt |-> 0]
    /\ reserved = [j \in DOMAIN jt |-> 0]
    /\ cancel_running = {}
    /\ terminal_writes = [j \in DOMAIN jt |-> 0]
    /\ db_lock = 0
    /\ caller_pc = [c \in Callers |-> "idle"]
    /\ caller_row = [c \in Callers |-> 0]
    /\ caller_ret = [c \in Callers |-> 0]

IdleOrchestrator(jt) == IdleWithPrompts(jt, [j \in DOMAIN jt |-> <<"list", "files">>])

(* two queued jobs; up to MaxFiles of the agent's files are on disk *)
InitArtifacts ==
    /\ IdleOrchestrator(create_job(create_job(<<>>, "ephemeral", NoText, FALSE, QUEUED, 0),
                                   "ephemeral", NoText, FALSE, QUEUED, 0))
    /\ files \in {fs \in SUBSET {AgentFiles[i] : i \in DOMAIN AgentFiles} :
                     Cardinality(fs) <= MaxFiles}
    /\ artifacts = <<>>
    /\ collections = 0
    /\ runtime = RuntimeProfile
    /\ last_call = NoCall
    /\ template = <<>>
    /\ command = <<>>
    /\ passes = 0
    /\ InitFrontEnd

NextArtifacts ==
    \/ \E j \in JobIds : collect_from_run_dir(j)
    \/ \E j \in JobIds, text \in OutputTexts : collect_from_output_texts(j, text)
    \/ \E j \in JobIds, ffmpeg_ok \in BOOLEAN : generate_for_job(j, ffmpeg_ok)

SpecArtifacts == InitArtifacts /\ [][NextArtifacts]_vars

----------------------------------------------------------------------------
(* executor.py: the RuntimeProfile and its setters.  An argument is None or *)
(* a string, given by its words (for a path: its parts, "/" first when it   *)
(* is absolute) and by whether white space surrounds it.  A setter returns  *)
(* the profile it leaves behind and whether it raised RuntimeProfileError.  *)

ALLOWED_SANDBOX_MODES == {"read-only", "workspace-write", "danger-full-access"}

ALLOWED_APPROVAL_POLICIES == {"untrusted", "on-failure", "on-request", "never"}

ALLOWED_REASONING_EFFORTS == {"minimal", "low", "medium", "high", "xhigh"}

ALLOWED_WEB_SEARCH_MODES == {"live", "cached", "disabled"}

(* the keys of PERSONALITY_PRESETS, the legacy aliases included *)
PERSONALITY_PRESETS ==
    {"none", "friendly", "pragmatic", "default", "concise", "detailed", "coding"}

None == [none |-> TRUE, text |-> <<>>, pad |-> FALSE]

Str(words, pad) == [none |-> FALSE, text |-> words, pad |-> pad]

(* str.strip(): the surrounding white space is dropped *)
strip(arg) == arg.text

(* the string of the words, sep between them *)
RECURSIVE join(_, _)
join(words, sep) ==
    IF words = <<>> THEN ""
    ELSE IF Len(words) = 1 THEN words[1]
    ELSE words[1] \o sep \o join(Tail(words), sep)

(* the words lower-cased and joined by sep *)
lower_join(words, sep) == join([i \in DOMAIN words |-> lower(words[i])], sep)

(* value.strip().lower() *)
strip_lower(arg) == lower_join(strip(arg), " ")

(* _normalize_feature: name.strip().lower().replace(" ", "-") *)
normalize_feature(arg) == lower_join(strip(arg), "-")

Returned(rt) == [runtime |-> rt, raised |-> FALSE]

Raised(rt) == [runtime |-> rt, raised |-> TRUE]

(* the model is assigned before the reasoning effort is validated *)
set_model(rt, model, reasoning_effort) ==
    LET with_model == [rt EXCEPT !.model = IF model.none \/ model.text = <<>> THEN NoText
                                           ELSE join(strip(model), " ")]
        normalized == strip_lower(reasoning_effort)
    IN  IF reasoning_effort.none THEN Returned(with_model)
        ELSE IF normalized # "" /\ normalized \notin ALLOWED_REASONING_EFFORTS
        THEN Raised(with_model)
        ELSE Returned([with_model EXCEPT !.reasoning_effort =
                                            IF normalized = "" THEN NoText ELSE normalized])

set_sandbox_mode(rt, sandbox_mode) ==
    IF sandbox_mode.none THEN Returned([rt EXCEPT !.sandbox_mode = NoText])
    ELSE IF strip_lower(sandbox_mode) \notin ALLOWED_SANDBOX_MODES THEN Raised(rt)
    ELSE Returned([rt EXCEPT !.sandbox_mode = strip_lower(sandbox_mode)])

set_approval_policy(rt, policy) ==
    IF policy.none THEN Returned([rt EXCEPT !.approval_policy = NoText])
    ELSE IF strip_lower(policy) \notin ALLOWED_APPROVAL_POLICIES THEN Raised(rt)
    ELSE Returned([rt EXCEPT !.approval_policy = strip_lower(policy)])

set_search(rt, enabled) ==
    Returned([rt EXCEPT !.web_search = IF enabled THEN "live" ELSE "disabled"])

set_web_search_mode(rt, mode) ==
    IF mode.none THEN Returned([rt EXCEPT !.web_search = NoText])
    ELSE IF strip_lower(mode) \notin ALLOWED_WEB_SEARCH_MODES THEN Raised(rt)
    ELSE Returned([rt EXCEPT !.web_search = strip_lower(mode)])

set_personality(rt, personality, custom_instruction) ==
    LET normalized == strip_lower(personality)
        instruction == IF custom_instruction.none THEN ""
                       ELSE join(strip(custom_instruction), " ")
    IN  IF normalized = "custom"
        THEN IF instruction = "" THEN Raised(rt)
             ELSE Returned([rt EXCEPT !.personality = "custom",
                                      !.personality_instruction = instruction])
        ELSE IF normalized \notin PERSONALITY_PRESETS THEN Raised(rt)
        ELSE Returned([rt EXCEPT !.personality = normalized, !.personality_instruction = ""])

(* mutant: enabling a feature that is enabled disables it, and the reverse *)
experimental_features_toggle(features, normalized, enabled) ==
    IF normalized \in features THEN features \ {normalized} ELSE features \cup {normalized}

(* experimental_features.add(normalized) or .discard(normalized) *)
experimental_features_update(features, normalized, enabled) ==
    IF enabled THEN features \cup {normalized} ELSE features \ {normalized}

set_experimental_feature(rt, feature, enabled) ==
    IF normalize_feature(feature) = "" THEN Raised(rt)
    ELSE Returned([rt EXCEPT !.experimental_features =
                                experimental_features_update(@, normalize_feature(feature),
                                                             enabled)])

clear_experimental_features(rt) == Returned([rt EXCEPT !.experimental_features = {}])

(* the directories on disk: the allowed roots, a sibling whose name starts   *)
(* like a root, directories outside, and a link inside a root that leaves it *)
Dirs ==
    { <<>>, <<"srv">>, <<"srv", "work">>, <<"srv", "work", "sub">>, <<"srv", "shared">>,
      <<"srv", "workshop">>, <<"etc">>, <<"home">>, <<"home", "bot">> }

DirLinks == { [path |-> <<"srv", "work", "out">>, target |-> <<"etc">>] }

Home == <<"home", "bot">>

(* Path.expanduser() *)
expanduser(parts) ==
    IF parts # <<>> /\ Head(parts) = "~" THEN <<"/">> \o Home \o Tail(parts) ELSE parts

is_absolute(parts) == parts # <<>> /\ Head(parts) = "/"

(* Path.resolve() on a directory path: ".." leaves the directory a link led  *)
(* to, a link is replaced by its target                                      *)
RECURSIVE resolve_dir(_, _)
resolve_dir(done, rest) ==
    IF rest = <<>> THEN done
    ELSE IF Head(rest) = "." THEN resolve_dir(done, Tail(rest))
    ELSE IF Head(rest) = ".."
    THEN resolve_dir(IF done = <<>> THEN done ELSE SubSeq(done, 1, Len(done) - 1), Tail(rest))
    ELSE LET next == Append(done, Head(rest))
         IN  IF \E l \in DirLinks : l.path = next
             THEN resolve_dir((CHOOSE l \in DirLinks : l.path = next).target, Tail(rest))
             ELSE resolve_dir(next, Tail(rest))

(* candidate.exists() and candidate.is_dir() *)
is_dir(path) == path \in Dirs

(* mutant: every path counts as inside every root *)
is_within_any(path, root) == TRUE

is_within(path, root) == is_relative_to(path, root)

(* self._runtime.workdir_override or self._settings.codex_workdir *)
get_effective_workdir(rt) ==
    IF rt.workdir_override # <<>> THEN rt.workdir_override ELSE codex_workdir

(* Path("") is ".", so the test for an empty path never holds and the empty *)
(* string names the current effective workdir                                *)
set_workdir(rt, path_value) ==
    IF path_value.none THEN Returned([rt EXCEPT !.workdir_override = <<>>])
    ELSE LET raw == expanduser(strip(path_value))
             candidate == IF is_absolute(raw) THEN resolve_dir(<<>>, Tail(raw))
                          ELSE resolve_dir(get_effective_workdir(rt), raw)
         IN  IF ~is_dir(candidate) THEN Raised(rt)
             ELSE IF ~\E root \in codex_allowed_workdirs : is_within(candidate, root)
             THEN Raised(rt)
             ELSE Returned([rt EXCEPT !.workdir_override = candidate])

runtime_frame == <<jobs, orch_vars, caller_vars, files, artifacts, collections,
                   template, command, passes, sess_vars, store_vars, bot_vars>>

(* a setter is called with the arguments a and b and the flag on; the call  *)
(* is recorded, with whether it repeats the call before it                  *)
setter_call(op, a, b, on, result) ==
    /\ runtime' = result.runtime
    /\ last_call' = [op |-> op, args |-> <<a, b, on>>, raised |-> result.raised,
                     repeated |-> last_call.op = op /\ last_call.args = <<a, b, on>>]
    /\ UNCHANGED runtime_frame

ModelArgs == {None, Str(<<"gpt-5">>, TRUE)}

EffortArgs == {None, Str(<<"HIGH">>, TRUE), Str(<<"bogus">>, FALSE), Str(<<>>, TRUE)}

SandboxArgs == {None, Str(<<"Read-Only">>, TRUE), Str(<<"bogus">>, FALSE)}

ApprovalArgs == {None, Str(<<"Never">>, FALSE), Str(<<"always">>, FALSE)}

WebSearchArgs == {None, Str(<<"Cached">>, TRUE), Str(<<"on">>, FALSE)}

PersonalityArgs ==
    {Str(<<"Friendly">>, TRUE), Str(<<"Concise">>, FALSE), Str(<<"Custom">>, FALSE),
     Str(<<"bogus">>, FALSE)}

InstructionArgs == {None, Str(<<"be", "brief">>, TRUE), Str(<<>>, TRUE)}

FeatureArgs ==
    {Str(<<"Web", "Search">>, TRUE), Str(<<"web-search">>, FALSE), Str(<<"js_repl">>, FALSE),
     Str(<<>>, TRUE)}

WorkdirArgs ==
    {None, Str(<<>>, FALSE), Str(<<"sub">>, TRUE), Str(<<"..">>, FALSE),
     Str(<<"..", "shared">>, FALSE), Str(<<"..", "workshop">>, FALSE), Str(<<"out">>, FALSE),
     Str(<<"notes.txt">>, FALSE), Str(<<"~">>, FALSE),
     Str(<<"/", "srv", "work", "sub">>, FALSE), Str(<<"/", "etc">>, FALSE),
     Str(<<"/", "srv", "work", "sub", "..", "..", "shared">>, FALSE)}

NextRuntime ==
    \/ \E a \in ModelArgs, b \in EffortArgs :
          setter_call("set_model", a, b, FALSE, set_model(runtime, a, b))
    \/ \E a \in SandboxArgs :
          setter_call("set_sandbox_mode", a, None, FALSE, set_sandbox_mode(runtime, a))
    \/ \E a \in ApprovalArgs :
          setter_call("set_approval_policy", a, None, FALSE, set_approval_policy(runtime, a))
    \/ \E on \in BOOLEAN :
          setter_call("set_search", None, None, on, set_search(runtime, on))
    \/ \E a \in WebSearchArgs :
          setter_call("set_web_search_mode", a, None, FALSE, set_web_search_mode(runtime, a))
    \/ \E a \in PersonalityArgs, b \in InstructionArgs :
          setter_call("set_personality", a, b, FALSE, set_personality(runtime, a, b))
    \/ \E a \in FeatureArgs, on \in BOOLEAN :
          setter_call("set_experimental_feature", a, None, on,
                      set_experimental_feature(runtime, a, on))
    \/ setter_call("clear_experimental_features", None, None, FALSE,
                   clear_experimental_features(runtime))
    \/ \E a \in WorkdirArgs :
          setter_call("set_workdir", a, None, FALSE, set_workdir(runtime, a))

SpecRuntime == Init /\ [][NextRuntime]_vars

----------------------------------------------------------------------------
(* executor.py: plan construction.  A command is the sequence of its shell  *)
(* words, which is what shlex.split makes of it; "codex exec " at a place   *)
(* of the string is the word codex followed by the word exec and a further  *)
(* word.  shlex.quote makes one word of the prompt and one of a path.       *)

MaxPasses == 2

codex_skip_git_repo_check == TRUE

codex_auto_safe_flags == TRUE

codex_safe_default_approval == "on-request"

SKIP_FLAG == "--skip-git-repo-check"

(* the words that are the flag: -o, --output-last-message, and the words    *)
(* that start with "-o=" or "--output-last-message="                        *)
ShortOutputFlags == {"-o", "-o=P"}

LongOutputFlags == {"--output-last-message", "--output-last-message=P"}

(* the instruction of the profile's personality ("" for none) *)
personality_instruction_of(rt) ==
    CASE rt.personality = "custom" -> rt.personality_instruction
      [] rt.personality = "friendly" -> "Respond in a friendly, collaborative tone."
      [] rt.personality = "pragmatic" ->
            "Respond as a pragmatic software engineer: direct, concise, and actionable."
      [] rt.personality = "concise" -> "Respond concisely with the direct answer first."
      [] rt.personality = "detailed" ->
            "Respond with structured detail and include key tradeoffs."
      [] rt.personality = "coding" ->
            "Prioritize actionable engineering output with explicit assumptions."
      [] OTHER -> ""

(* the prompt is the sequence of its words; the instruction and the blank   *)
(* line after it stand before them                                          *)
apply_personality(rt, prompt) ==
    IF personality_instruction_of(rt) = "" THEN prompt
    ELSE <<personality_instruction_of(rt)>> \o prompt

(* the word the shell makes of shlex.quote(text): the text itself *)
shlex_quote(words) == join(words, " ")

(* template.format over vars_map: the quoted values are one word each *)
(* shlex.quote(str(output_last_message_path or "")) is '' for None *)
format_word(word, prompt, output_path) ==
    CASE word = "{prompt_quoted}" -> shlex_quote(prompt)
      [] word = "{session_name_quoted}" -> "demo"
      [] word = "{output_last_message_path_quoted}" ->
            (IF output_path = <<>> THEN "''" ELSE output_path[1])
      [] OTHER -> word

format(tmpl, prompt, output_path) ==
    [i \in DOMAIN tmpl |-> format_word(tmpl[i], prompt, output_path)]

(* sorted(self._runtime.experimental_features) *)
SortedFeatures == <<"js_repl", "web-search">>

RECURSIVE feature_flags(_, _)
feature_flags(features, i) ==
    IF i > Len(SortedFeatures) THEN <<>>
    ELSE (IF SortedFeatures[i] \in features THEN <<"--enable", SortedFeatures[i]>> ELSE <<>>)
         \o feature_flags(features, i + 1)

runtime_cli_flags(rt) ==
    (IF rt.model # NoText THEN <<"-m", rt.model>> ELSE <<>>)
    \o (IF rt.reasoning_effort \notin {NoText, ""}
        THEN <<"-c", "model_reasoning_effort=\"" \o rt.reasoning_effort \o "\"">> ELSE <<>>)
    \o (IF rt.sandbox_mode # NoText THEN <<"-s", rt.sandbox_mode>> ELSE <<>>)
    \o <<"-c", "approval_policy=\""
                 \o (IF rt.approval_policy # NoText THEN rt.approval_policy
                     ELSE codex_safe_default_approval) \o "\"">>
    \o (IF rt.web_search # NoText THEN <<"-c", "web_search=\"" \o rt.web_search \o "\"">> ELSE <<>>)
    \o feature_flags(rt.experimental_features, 1)

(* the places of "codex exec " in the command *)
marker_places(cmd) ==
    {i \in DOMAIN cmd : cmd[i] = "codex" /\ i + 2 <= Len(cmd) /\ cmd[i + 1] = "exec"}

(* the three branches every injection has: the command starts with the      *)
(* marker, the command is "codex exec", or the marker is found further on;  *)
(* otherwise the command is returned as it is                               *)
inject_after_marker(cmd, flags) ==
    IF cmd = <<"codex", "exec">> THEN cmd \o flags
    ELSE IF marker_places(cmd) = {} THEN cmd
    ELSE LET idx == Min(marker_places(cmd))
         IN  SubSeq(cmd, 1, idx + 1) \o flags \o SubSeq(cmd, idx + 2, Len(cmd))

inject_runtime_flags(cmd, rt) ==
    IF runtime_cli_flags(rt) = <<>> THEN cmd ELSE inject_after_marker(cmd, runtime_cli_flags(rt))

ensure_skip_git_repo_check(cmd) ==
    IF ~codex_skip_git_repo_check \/ ~codex_auto_safe_flags THEN cmd
    ELSE IF \E i \in DOMAIN cmd : cmd[i] = SKIP_FLAG THEN cmd
    ELSE inject_after_marker(cmd, <<SKIP_FLAG>>)

(* the words after position i up to the first separator or "--" *)
RECURSIVE exec_words(_, _)
exec_words(cmd, i) ==
    IF i > Len(cmd) \/ cmd[i] \in {"&&", "||", "|", ";", "--"} THEN {}
    ELSE {cmd[i]} \cup exec_words(cmd, i + 1)

(* "--output-last-message" in command or " -o " in command *)
output_flag_in_text(cmd) ==
    \/ \E i \in DOMAIN cmd : cmd[i] \in LongOutputFlags
    \/ \E i \in DOMAIN cmd : 1 < i /\ i < Len(cmd) /\ cmd[i] = "-o"

(* mutant: only the word that follows "codex exec" is looked at *)
has_output_last_message_flag_leading(cmd) ==
    \E i \in DOMAIN cmd :
        /\ i + 2 <= Len(cmd) /\ cmd[i] = "codex" /\ cmd[i + 1] = "exec"
        /\ cmd[i + 2] \in ShortOutputFlags \cup LongOutputFlags

has_output_last_message_flag(cmd) ==
    LET execs == {i \in DOMAIN cmd : i + 1 <= Len(cmd) /\ cmd[i] = "codex" /\ cmd[i + 1] = "exec"}
    IN  IF \E i \in execs :
              exec_words(cmd, i + 2) \cap (ShortOutputFlags \cup LongOutputFlags) # {}
        THEN TRUE
        ELSE IF execs # {} THEN FALSE
        ELSE output_flag_in_text(cmd)

(* output_path is <<>> for None, else the word shlex.quote makes of it *)
inject_output_last_message(cmd, output_path) ==
    IF output_path = <<>> THEN cmd
    ELSE IF has_output_last_message_flag(cmd) THEN cmd
    ELSE inject_after_marker(cmd, <<"-o">> \o output_path)

plan_command(tmpl, prompt, rt, output_path) ==
    inject_output_last_message(
        ensure_skip_git_repo_check(
            inject_runtime_flags(format(tmpl, apply_personality(rt, prompt), output_path), rt)),
        output_path)

plan_frame == <<jobs, orch_vars, caller_vars, files, artifacts, collections, runtime,
                last_call, template, sess_vars, store_vars, bot_vars>>

(* plan construction is applied to the command the last one produced *)
build_plan(output_path) ==
    /\ passes < MaxPasses
    /\ passes' = passes + 1
    /\ command' = plan_command(command, <<"hi">>, runtime, output_path)
    /\ UNCHANGED plan_frame

OutputOptions ==
    { <<>>, <<"-o", "{output_last_message_path_quoted}">>, <<"-o=P">>,
      <<"--output-last-message", "{output_last_message_path_quoted}">>,
      <<"--output-last-message=P">> }

(* templates: an optional command before, options, positional arguments,    *)
(* options after them, an optional command behind                           *)
Templates ==
    { pre \o <<"codex", "exec">> \o skip \o before \o pos \o after \o post :
        pre \in {<<>>, <<"cd", "w", "&&">>},
        skip \in {<<>>, <<SKIP_FLAG>>},
        before \in OutputOptions,
        pos \in {<<>>, <<"{prompt_quoted}">>,
                 <<"resume", "{session_name_quoted}", "{prompt_quoted}">>},
        after \in OutputOptions \cup {<<SKIP_FLAG>>},
        post \in {<<>>, <<"&&", "echo", "done">>} }

PlanProfiles ==
    { RuntimeProfile,
      [RuntimeProfile EXCEPT !.model = "gpt-5", !.reasoning_effort = "high",
                             !.experimental_features = {"web-search"}] }

InitPlan ==
    /\ IdleOrchestrator(<<>>)
    /\ files = {}
    /\ artifacts = <<>>
    /\ collections = 0
    /\ runtime \in PlanProfiles
    /\ last_call = NoCall
    /\ template \in Templates
    /\ command = template
    /\ passes = 0
    /\ InitFrontEnd

NextPlan ==
    \/ build_plan(<<>>)
    \/ build_plan(<<"P">>)

SpecPlan == InitPlan /\ [][NextPlan]_vars

----------------------------------------------------------------------------
(* orchestrator.py start after a stop that has returned (_dispatch_task is  *)
(* None): the event is cleared and a new dispatcher task is created.  The   *)
(* jobs table is what the stopped orchestrator left.                        *)

start ==
    /\ stop_pc = "stopped"
    /\ stop_pc' = "idle"
    /\ dispatch_alive' = TRUE
    /\ UNCHANGED <<running_tasks, must_cancel, dispatch_errors>>
    /\ UNCHANGED stop_frame
    /\ UNCHANGED note_vars
    /\ UNCHANGED caller_vars
    /\ UNCHANGED svc_vars

(* approve, reject, cancel, stop and start in any order around the          *)
(* dispatcher and the workers                                               *)
NextRestart ==
    \/ \E prompt \in RunPrompts : submit_job(prompt, "ephemeral", TRUE)
    \/ \E j \in JobIds : approve_job(j, 1)
    \/ \E j \in JobIds : reject_job(j, 1, TRUE)
    \/ \E j \in JobIds : cancel_job(j, TRUE)
    \/ dispatch_loop
    \/ stop_begin
    \/ stop_cancel_tasks
    \/ stop_finish
    \/ start
    \/ \E j \in JobIds : run_job_start(j, FALSE)
    \/ \E j \in JobIds : run_job_spawned(j, FALSE)
    \/ \E j \in JobIds : child_exits(j, 0)
    \/ \E j \in JobIds, outcome \in PostOutcomes : run_job_child_exited(j, outcome)
    \/ \E j \in JobIds : run_job_wait_cancelled(j)
    \/ \E j \in JobIds : run_job_cancel_reaped(j)
    \/ \E j \in JobIds : run_job_notified(j, TRUE)
    \/ \E j \in JobIds : run_job_finish(j, TRUE)
    \/ \E j \in JobIds : task_done_callback(j)

SpecRestart == Init /\ [][NextRestart]_vars

----------------------------------------------------------------------------
(* executor.py build_plan for a job: the plan is built once, with an output *)
(* path, from the template of the job's mode and the job's prompt.          *)

PlanPrompts ==
    { <<"hello">>, <<"-o">>, <<"explain", "-o", "here">>, <<"--output-last-message">>,
      <<"-o=x">>, <<"-ofile">> }

(* the default templates, the one with the flag behind the positional       *)
(* arguments, each also behind a cd and before an echo                      *)
PromptTemplates ==
    { pre \o tmpl \o post :
        pre \in {<<>>, <<"cd", "w", "&&">>},
        tmpl \in { <<"codex", "exec", "{prompt_quoted}">>,
                   <<"codex", "exec", SKIP_FLAG, "resume", "{session_name_quoted}",
                     "{prompt_quoted}">>,
                   <<"codex", "exec", "resume", "{session_name_quoted}", "{prompt_quoted}",
                     "--output-last-message", "{output_last_message_path_quoted}">> },
        post \in {<<>>, <<"&&", "echo", "done">>} }

PromptProfiles ==
    PlanProfiles \cup {[RuntimeProfile EXCEPT !.personality = "friendly"]}

build_plan_for_job(job_id, output_path) ==
    /\ job_id \in DOMAIN jobs
    /\ passes = 0
    /\ passes' = 1
    /\ command' = plan_command(template, prompts[job_id], runtime, output_path)
    /\ UNCHANGED plan_frame

InitPrompt ==
    /\ \E prompt \in PlanPrompts :
          IdleWithPrompts(create_job(<<>>, "ephemeral", NoText, FALSE, QUEUED, 0), <<prompt>>)
    /\ files = {}
    /\ artifacts = <<>>
    /\ collections = 0
    /\ runtime \in PromptProfiles
    /\ last_call = NoCall
    /\ template \in PromptTemplates
    /\ command = template
    /\ passes = 0
    /\ InitFrontEnd

NextPrompt == \E j \in JobIds : build_plan_for_job(j, <<"P">>)

SpecPrompt == InitPrompt /\ [][NextPrompt]_vars

----------------------------------------------------------------------------
(* sessions.py create, step by step.  The method has one suspension point,  *)
(* await asyncio.create_subprocess_shell, reached only when a boot template *)
(* is set: the look-up of the record comes before it, the upsert after it.  *)

create_frame == <<jobs, events, running_tasks, task_pc, task_result, must_cancel, child,
                  child_rc, now, approve_calls, reject_calls, cancel_calls, approved_effect,
                  dead_awaiting, executed, reserved, cancel_running, terminal_writes,
                  prompts, life_vars, note_vars, caller_vars, side_vars, store_vars,
                  bot_vars, boot_cmd>>

(* the call returns SessionCreateResult(record, created) *)
create_return(c, created) ==
    /\ create_pc' = [create_pc EXCEPT ![c] = "returned"]
    /\ create_ret' = [create_ret EXCEPT ![c] = created]

(* existing = get_session(name); return it when it is active; without a     *)
(* boot template the upsert follows in the same step                        *)
create_begin(c) ==
    /\ create_pc[c] = "idle"
    /\ IF is_session_active(SessionName)
       THEN /\ create_return(c, "existing")
            /\ UNCHANGED session_active
       ELSE IF boot_cmd
       THEN /\ create_pc' = [create_pc EXCEPT ![c] = "spawning"]
            /\ UNCHANGED <<create_ret, session_active>>
       ELSE /\ create_return(c, "created")
            /\ session_active' = TRUE
    /\ UNCHANGED boot_spawned
    /\ UNCHANGED create_frame

(* create_subprocess_shell returns the process or raises; on return         *)
(* self._processes[name] = proc and upsert_session(name, ACTIVE, pid)       *)
create_spawned(c, spawns) ==
    /\ create_pc[c] = "spawning"
    /\ IF spawns
       THEN /\ boot_spawned' = boot_spawned + 1
            /\ session_active' = TRUE
            /\ create_return(c, "created")
       ELSE /\ create_return(c, "raised")
            /\ UNCHANGED <<boot_spawned, session_active>>
    /\ UNCHANGED create_frame

(* the session is inactive, with or without a boot template *)
InitSessions ==
    /\ IdleOrchestrator(<<>>)
    /\ files = {}
    /\ artifacts = <<>>
    /\ collections = 0
    /\ runtime = RuntimeProfile
    /\ last_call = NoCall
    /\ template = <<>>
    /\ command = <<>>
    /\ passes = 0
    /\ boot_cmd \in BOOLEAN
    /\ boot_spawned = 0
    /\ create_pc = [c \in Creators |-> "idle"]
    /\ create_ret = [c \in Creators |-> "none"]
    /\ approval_polls = EmptyStore
    /\ approval_checklists = EmptyStore
    /\ approval_rows = {}
    /\ pending = {}
    /\ popped = {}
    /\ restarts = 0
    /\ last_seen = NULL
    /\ control_callers = {}
    /\ last_update = NoUpdate
    /\ active_session = NoText

NextSessions ==
    \/ \E c \in Creators : create_begin(c)
    \/ \E c \in Creators, spawns \in BOOLEAN : create_spawned(c, spawns)

SpecSessions == InitSessions /\ [][NextSessions]_vars

----------------------------------------------------------------------------
(* approval_polls.py and approval_checklists.py.  The two stores are the    *)
(* same code over different keys: a poll is tracked under its poll_id, a    *)
(* checklist under (chat_id, message_id) with the owner's chat as chat_id.  *)
(* A dict is the set of its <<key, value>> pairs.  Telegram gives every     *)
(* poll and every message an id of its own: a registered id is new.         *)

Tokens == 1..MaxTokens

(* dict.get(key) *)
dict_get(d, key) ==
    IF \E p \in d : p[1] = key THEN (CHOOSE p \in d : p[1] = key)[2] ELSE NULL

(* dict.pop(key, None), the dict afterwards *)
dict_pop(d, key) == {p \in d : p[1] # key}

(* dict[key] = value *)
dict_set(d, key, value) == dict_pop(d, key) \cup {<<key, value>>}

(* main.py constructs ApprovalPollStore() and ApprovalChecklistStore():     *)
(* persistence is None                                                      *)
persistence_given == FALSE

(* the persistence of a store: save adds or replaces the row of the id *)
save_approval(rows, kind, id, job_id) ==
    {r \in rows : ~(r[1] = kind /\ r[2] = id)} \cup {<<kind, id, job_id>>}

(* delete removes the row of the id *)
delete_approval(rows, kind, id) == {r \in rows : ~(r[1] = kind /\ r[2] = id)}

(* list returns the rows of the kind *)
list_approvals(rows, kind) == {r \in rows : r[1] = kind}

(* _register_local, and the dict part of register *)
register_local(store, id, job_id) ==
    LET old_id == dict_get(store.id_by_job, job_id)
        by_id == IF old_id # NULL /\ old_id # id
                 THEN dict_pop(store.by_id, old_id) ELSE store.by_id
    IN  [by_id |-> dict_set(by_id, id, job_id),
         id_by_job |-> dict_set(store.id_by_job, job_id, id)]

(* __init__: every listed row is registered; the rows hold one id per job   *)
new_store(rows, kind) ==
    IF persistence_given
    THEN [by_id |-> {<<r[2], r[3]>> : r \in list_approvals(rows, kind)},
          id_by_job |-> {<<r[3], r[2]>> : r \in list_approvals(rows, kind)}]
    ELSE EmptyStore

(* the rows after register *)
register_rows(rows, store, kind, id, job_id) ==
    LET old_id == dict_get(store.id_by_job, job_id)
        kept == IF old_id # NULL /\ old_id # id
                THEN delete_approval(rows, kind, old_id) ELSE rows
    IN  IF persistence_given THEN save_approval(kept, kind, id, job_id) ELSE rows

store_get(store, id) == dict_get(store.by_id, id)

(* pop: the store afterwards *)
store_pop(store, id) ==
    LET job_id == dict_get(store.by_id, id)
    IN  IF job_id = NULL THEN store
        ELSE [by_id |-> dict_pop(store.by_id, id),
              id_by_job |-> IF dict_get(store.id_by_job, job_id) = id
                            THEN dict_pop(store.id_by_job, job_id)
                            ELSE store.id_by_job]

(* the rows after pop *)
pop_rows(rows, store, kind, id) ==
    IF store_get(store, id) # NULL /\ persistence_given
    THEN delete_approval(rows, kind, id) ELSE rows

(* pop_for_job: the id that is popped, NULL when the job has none *)
id_for_job(store, job_id) == dict_get(store.id_by_job, job_id)

store_of(kind) == IF kind = "poll" THEN approval_polls ELSE approval_checklists

store_frame == <<jobs, orch_vars, caller_vars, files, artifacts, collections, last_call,
                 template, command, passes, sess_vars, control_callers, last_update,
                 active_session>>

(* the stores after an operation that leaves the store of kind as st *)
stores_become(kind, st) ==
    /\ approval_polls' = IF kind = "poll" THEN st ELSE approval_polls
    /\ approval_checklists' = IF kind = "checklist" THEN st ELSE approval_checklists

(* register(ApprovalPoll(poll_id, job_id, ...)) or                          *)
(* register(ApprovalChecklist(job_id, chat_id, message_id))                 *)
store_register(kind, id, job_id) ==
    /\ <<kind, id>> \notin pending \cup popped
    /\ LET old_id == id_for_job(store_of(kind), job_id)
       IN  /\ stores_become(kind, register_local(store_of(kind), id, job_id))
           /\ approval_rows' = register_rows(approval_rows, store_of(kind), kind, id, job_id)
           /\ pending' = (pending \ {<<kind, old_id>>}) \cup {<<kind, id>>}
           /\ popped' = IF old_id # NULL THEN popped \cup {<<kind, old_id>>} ELSE popped
    /\ UNCHANGED <<restarts, last_seen, runtime>>
    /\ UNCHANGED store_frame

(* pop(poll_id) or pop(chat_id, message_id) *)
store_pop_id(kind, id) ==
    /\ stores_become(kind, store_pop(store_of(kind), id))
    /\ approval_rows' = pop_rows(approval_rows, store_of(kind), kind, id)
    /\ pending' = pending \ {<<kind, id>>}
    /\ popped' = IF <<kind, id>> \in pending THEN popped \cup {<<kind, id>>} ELSE popped
    /\ UNCHANGED <<restarts, last_seen, runtime>>
    /\ UNCHANGED store_frame

(* pop_for_job(job_id) *)
store_pop_for_job(kind, job_id) ==
    /\ LET id == id_for_job(store_of(kind), job_id)
       IN  /\ stores_become(kind, IF id = NULL THEN store_of(kind)
                                  ELSE store_pop(store_of(kind), id))
           /\ approval_rows' = IF id = NULL THEN approval_rows
                               ELSE pop_rows(approval_rows, store_of(kind), kind, id)
           /\ pending' = pending \ {<<kind, id>>}
           /\ popped' = IF <<kind, id>> \in pending THEN popped \cup {<<kind, id>>}
                        ELSE popped
    /\ UNCHANGED <<restarts, last_seen, runtime>>
    /\ UNCHANGED store_frame

(* main.py _run_async run again after the process ended with no worker task *)
(* left: the database file is what it was, the stores, the guard of the     *)
(* dispatcher and the executor's runtime profile are constructed anew       *)
restart ==
    /\ restarts < MaxRestarts
    /\ running_tasks = {}
    /\ restarts' = restarts + 1
    /\ approval_polls' = new_store(approval_rows, "poll")
    /\ approval_checklists' = new_store(approval_rows, "checklist")
    /\ last_seen' = NULL
    /\ runtime' = RuntimeProfile
    /\ UNCHANGED <<approval_rows, pending, popped>>
    /\ UNCHANGED store_frame

StoreKinds == {"poll", "checklist"}

(* two jobs wait for approval, nothing is registered *)
InitStores ==
    /\ IdleOrchestrator(create_job(create_job(<<>>, "ephemeral", NoText, TRUE,
                                              AWAITING_APPROVAL, 0),
                                   "ephemeral", NoText, TRUE, AWAITING_APPROVAL, 0))
    /\ InitServices

NextStores ==
    \/ \E kind \in StoreKinds, id \in Tokens, j \in JobIds : store_register(kind, id, j)
    \/ \E kind \in StoreKinds, id \in Tokens : store_pop_id(kind, id)
    \/ \E kind \in StoreKinds, j \in JobIds : store_pop_for_job(kind, j)
    \/ restart

SpecStores == InitStores /\ [][NextStores]_vars

----------------------------------------------------------------------------
(* bot.py: the handlers build_dispatcher registers.  An update is handled   *)
(* by one handler call; a handler runs without suspension up to the         *)
(* notifier call of the facade method it calls, and what it does after the  *)
(* facade method returned belongs to the same step.  time.monotonic() is    *)
(* the clock in whole seconds.  No assistant poll is tracked.               *)

owner_user_id == 1

command_cooldown_seconds == 1

APPROVAL_TASK_APPROVE == 1

APPROVAL_TASK_REJECT == 2

APPROVAL_TASK_REVISE == 3

APPROVAL_OPTION_APPROVE == 0

APPROVAL_OPTION_REJECT == 1

APPROVAL_OPTION_REVISE == 2

(* mutant: the guard does not compare the user with the owner *)
authorize_anyone(user) ==
    IF last_seen # NULL /\ now - last_seen < command_cooldown_seconds THEN "limited"
    ELSE "ok"

(* CommandGuard.authorize: "unauthorized" and "limited" answer the message  *)
(* and return False, "ok" returns True                                      *)
authorize(user) ==
    IF user # owner_user_id THEN "unauthorized"
    ELSE IF last_seen # NULL /\ now - last_seen < command_cooldown_seconds THEN "limited"
    ELSE "ok"

(* self._last_seen[user.id] = now *)
seen(guard) == last_seen' = IF guard = "ok" THEN now ELSE last_seen

(* the update is recorded, with whether its handler made a control call *)
handled(kind, user, job_id, task, calls) ==
    /\ last_update' = [kind |-> kind, user |-> user, job |-> job_id, task |-> task]
    /\ control_callers' = IF calls THEN control_callers \cup {user} ELSE control_callers

(* the handler returns without a call to the orchestrator *)
no_call == UNCHANGED <<jobs, orch_vars, caller_vars, side_vars, sess_vars>>

(* the stores become polls and checklists by pops *)
stores_popped(polls, checklists) ==
    LET left == {<<"poll", p[1]>> : p \in polls.by_id}
                  \cup {<<"checklist", p[1]>> : p \in checklists.by_id}
        was == {<<"poll", p[1]>> : p \in approval_polls.by_id}
                  \cup {<<"checklist", p[1]>> : p \in approval_checklists.by_id}
    IN  /\ approval_polls' = polls
        /\ approval_checklists' = checklists
        /\ approval_rows' = IF persistence_given
                            THEN {r \in approval_rows : <<r[1], r[2]>> \notin was \ left}
                            ELSE approval_rows
        /\ pending' = pending \ (was \ left)
        /\ popped' = popped \cup (pending \cap (was \ left))
        /\ UNCHANGED restarts

(* pop_for_job, the store afterwards *)
popped_for_job(store, job_id) ==
    IF id_for_job(store, job_id) = NULL THEN store
    ELSE store_pop(store, id_for_job(store, job_id))

(* _clear_approval_ui_for_job *)
clear_approval_ui_for_job(job_id) ==
    stores_popped(popped_for_job(approval_polls, job_id),
                  popped_for_job(approval_checklists, job_id))

(* /run <prompt> *)
run_handler(user, prompt, delivers) ==
    LET guard == authorize(user)
        submits == guard = "ok"
                   /\ (active_session = NoText \/ is_session_active(active_session))
    IN  /\ seen(guard)
        /\ handled("run", user, NULL, NULL, submits)
        /\ IF submits
           THEN Orchestrator_submit_job(prompt,
                                        IF active_session = NoText THEN "ephemeral"
                                        ELSE "session", delivers)
           ELSE no_call
        /\ UNCHANGED <<store_vars, active_session>>

(* /approve <job_id> *)
approve_handler(user, job_id) ==
    LET guard == authorize(user)
        calls == guard = "ok" /\ job_id \in JobIds
    IN  /\ seen(guard)
        /\ handled("approve", user, NULL, NULL, calls)
        /\ IF calls
           THEN /\ Orchestrator_approve_job(job_id, user)
                /\ IF jobs'[job_id].status = QUEUED
                   THEN clear_approval_ui_for_job(job_id)
                   ELSE UNCHANGED store_vars
           ELSE no_call /\ UNCHANGED store_vars
        /\ UNCHANGED active_session

(* /reject <job_id> *)
reject_handler(user, job_id, delivers) ==
    LET guard == authorize(user)
        calls == guard = "ok" /\ job_id \in JobIds
    IN  /\ seen(guard)
        /\ handled("reject", user, NULL, NULL, calls)
        /\ IF calls
           THEN /\ Orchestrator_reject_job(job_id, user, delivers)
                /\ IF delivers
                   THEN clear_approval_ui_for_job(job_id)
                   ELSE UNCHANGED store_vars
           ELSE no_call /\ UNCHANGED store_vars
        /\ UNCHANGED active_session

(* /cancel <job_id> *)
cancel_handler(user, job_id, delivers) ==
    LET guard == authorize(user)
        calls == guard = "ok" /\ job_id \in JobIds
    IN  /\ seen(guard)
        /\ handled("cancel", user, NULL, NULL, calls)
        /\ IF calls
           THEN /\ Orchestrator_cancel_job(job_id, delivers)
                /\ IF delivers /\ jobs'[job_id].status \in {CANCELED, REJECTED, QUEUED, RUNNING}
                   THEN clear_approval_ui_for_job(job_id)
                   ELSE UNCHANGED store_vars
           ELSE no_call /\ UNCHANGED store_vars
        /\ UNCHANGED active_session

bot_session_frame == <<jobs, events, running_tasks, task_pc, task_result, must_cancel, child,
                       child_rc, now, approve_calls, reject_calls, cancel_calls,
                       approved_effect, dead_awaiting, executed, reserved, cancel_running,
                       terminal_writes, prompts, life_vars, note_vars, caller_vars,
                       side_vars, sess_vars, store_vars>>

(* /session create <name> and /session stop <name>; no boot template is set *)
(* and stop of a name without record answers "not found"                    *)
session_handler(user, subcommand) ==
    LET guard == authorize(user)
        creates == guard = "ok" /\ subcommand = "create"
        stops == guard = "ok" /\ subcommand = "stop"
    IN  /\ seen(guard)
        /\ handled("session", user, NULL, NULL, creates \/ stops)
        /\ session_active' = IF creates THEN TRUE ELSE IF stops THEN FALSE
                             ELSE session_active
        /\ active_session' = IF creates THEN SessionName
                             ELSE IF stops /\ active_session = SessionName THEN NoText
                             ELSE active_session
        /\ UNCHANGED bot_session_frame

PermissionArgs == {"read-only", "bogus"}

(* the setter calls of /permissions <mode>: set_permissions, then           *)
(* set_approvals for a preset; a RuntimeProfileError ends the handler       *)
permissions_result(rt, mode_arg) ==
    IF mode_arg = "default" THEN set_sandbox_mode(rt, None)
    ELSE IF mode_arg = "read-only"
    THEN LET first == set_sandbox_mode(rt, Str(<<"read-only">>, FALSE))
         IN  IF first.raised THEN first
             ELSE set_approval_policy(first.runtime, Str(<<"on-request">>, FALSE))
    ELSE set_sandbox_mode(rt, Str(<<mode_arg>>, FALSE))

(* /permissions <mode> *)
permissions_handler(user, mode_arg) ==
    LET guard == authorize(user)
        result == permissions_result(runtime, mode_arg)
    IN  /\ seen(guard)
        /\ handled("permissions", user, NULL, NULL, guard = "ok")
        /\ runtime' = IF guard = "ok" THEN result.runtime ELSE runtime
        /\ last_call' = IF guard = "ok"
                        THEN [op |-> "set_sandbox_mode", args |-> <<mode_arg>>,
                              raised |-> result.raised, repeated |-> FALSE]
                        ELSE last_call
        /\ UNCHANGED <<jobs, orch_vars, caller_vars, files, artifacts, collections, template,
                       command, passes, sess_vars, store_vars, active_session>>

(* /status *)
status_handler(user) ==
    LET guard == authorize(user)
    IN  /\ seen(guard)
        /\ handled("status", user, NULL, NULL, FALSE)
        /\ no_call
        /\ UNCHANGED <<store_vars, active_session>>

(* a poll answer: the handler compares the user with the owner itself and   *)
(* does not call the guard                                                  *)
poll_approval_handler(user, poll_id, option, delivers) ==
    LET job_id == store_get(approval_polls, poll_id)
        acts == user = owner_user_id /\ job_id # NULL
        polls == store_pop(approval_polls, poll_id)
    IN  /\ handled("poll_answer", user, NULL, NULL, acts)
        /\ IF ~acts
           THEN no_call /\ UNCHANGED store_vars
           ELSE /\ IF option = APPROVAL_OPTION_APPROVE
                   THEN Orchestrator_approve_job(job_id, user)
                   ELSE Orchestrator_reject_job(job_id, user, delivers)
                /\ stores_popped(polls, popped_for_job(approval_checklists, job_id))
        /\ UNCHANGED <<last_seen, active_session>>

(* _handle_checklist_approval_message: the action of the done tasks *)
checklist_action(task) ==
    IF task = APPROVAL_TASK_APPROVE THEN "approve"
    ELSE IF task \in {APPROVAL_TASK_REJECT, APPROVAL_TASK_REVISE} THEN "reject"
    ELSE "none"

(* a message that is no command and has no attachment: a checklist event    *)
(* (message_id is the checklist message, task the task marked done) or a    *)
(* text.  attachment_run_handler, registered first without a filter,        *)
(* returns at once for it; whether the router then calls fallback_handler   *)
(* is the library's choice (propagates).  fallback_handler calls the guard  *)
(* before it looks at the checklist event.                                  *)
fallback_handler(user, message_id, task, propagates, delivers) ==
    LET guard == IF propagates THEN authorize(user) ELSE "none"
        job_id == IF task = NULL THEN NULL ELSE store_get(approval_checklists, message_id)
        action == IF guard = "ok" /\ task # NULL /\ user = owner_user_id /\ job_id # NULL
                  THEN checklist_action(task) ELSE "none"
    IN  /\ seen(guard)
        /\ handled(IF task = NULL THEN "text" ELSE "checklist_done", user, job_id, task,
                   action # "none")
        /\ IF action = "none"
           THEN no_call /\ UNCHANGED store_vars
           ELSE /\ IF action = "approve"
                   THEN Orchestrator_approve_job(job_id, user)
                   ELSE Orchestrator_reject_job(job_id, user, delivers)
                /\ stores_popped(IF delivers \/ action = "approve"
                                 THEN popped_for_job(approval_polls, job_id)
                                 ELSE approval_polls,
                                 store_pop(approval_checklists, message_id))
        /\ UNCHANGED active_session

(* a message with an attachment and a caption: attachment_run_handler;      *)
(* the download succeeds or fails                                           *)
attachment_run_handler(user, prompt, downloads, delivers) ==
    LET guard == authorize(user)
        submits == guard = "ok" /\ downloads
                   /\ (active_session = NoText \/ is_session_active(active_session))
    IN  /\ seen(guard)
        /\ handled("attachment", user, NULL, NULL, submits)
        /\ IF submits
           THEN Orchestrator_submit_job(prompt,
                                        IF active_session = NoText THEN "ephemeral"
                                        ELSE "session", delivers)
           ELSE no_call
        /\ UNCHANGED <<store_vars, active_session>>

(* notifier.py send_approval_request for a job that waits for approval: the *)
(* checklist or the poll that was sent is registered under the id Telegram  *)
(* gave it                                                                  *)
send_approval_request(kind, id, job_id) ==
    /\ jobs[job_id].status = AWAITING_APPROVAL
    /\ store_register(kind, id, job_id)

CheckTasks == {NULL, APPROVAL_TASK_APPROVE, APPROVAL_TASK_REJECT}

PollOptions == {APPROVAL_OPTION_APPROVE, APPROVAL_OPTION_REJECT}

NextBot ==
    \/ \E u \in Users : run_handler(u, <<"sudo", "reboot">>, TRUE)
    \/ \E u \in Users, j \in 1..MaxJobs : approve_handler(u, j)
    \/ \E u \in Users, j \in 1..MaxJobs : reject_handler(u, j, TRUE)
    \/ \E u \in Users, j \in 1..MaxJobs : cancel_handler(u, j, TRUE)
    \/ \E u \in Users, sub \in {"create", "stop"} : session_handler(u, sub)
    \/ \E u \in Users, mode_arg \in PermissionArgs : permissions_handler(u, mode_arg)
    \/ \E u \in Users : status_handler(u)
    \/ \E u \in Users, id \in 1..MaxJobs, option \in PollOptions :
          poll_approval_handler(u, id, option, TRUE)
    \/ \E u \in Users, id \in 1..MaxJobs, task \in CheckTasks, propagates \in BOOLEAN :
          fallback_handler(u, id, task, propagates, TRUE)
    \/ \E u \in Users, downloads \in BOOLEAN :
          attachment_run_handler(u, <<"list", "files">>, downloads, TRUE)
    \/ \E kind \in StoreKinds, j \in JobIds : send_approval_request(kind, j, j)
    \/ Tick

SpecBot == Init /\ [][NextBot]_vars

----------------------------------------------------------------------------
(* Claims *)

Count(seq, e) == Cardinality({i \in DOMAIN seq : seq[i] = e})

LegalTransitions ==
    { <<QUEUED, RUNNING>>, <<RUNNING, SUCCEEDED>>, <<RUNNING, FAILED>>, <<RUNNING, CANCELED>>,
      <<AWAITING_APPROVAL, QUEUED>>, <<AWAITING_APPROVAL, REJECTED>>,
      <<AWAITING_APPROVAL, CANCELED>>, <<QUEUED, CANCELED>> }

(* C1: every change of a job's status is one of the transitions of the state  *)
(* machine: queued->running by a reservation, awaiting_approval->queued by   *)
(* approve, awaiting_approval->rejected by reject, and a terminal status     *)
(* never changes.                                                            *)
C1_LegalTransitionsOnly ==
    [][\A j \in DOMAIN jobs :
          jobs'[j].status # jobs[j].status =>
             /\ <<jobs[j].status, jobs'[j].status>> \in LegalTransitions
             /\ jobs'[j].status = RUNNING => reserved'[j] = reserved[j] + 1
             /\ jobs[j].status = AWAITING_APPROVAL /\ jobs'[j].status = QUEUED
                   => approve_calls'[j] = approve_calls[j] + 1
             /\ jobs'[j].status = REJECTED => reject_calls'[j] = reject_calls[j] + 1]_vars

AllReturned == \A c \in Callers : caller_pc[c] = "returned"

(* C2: concurrent reserve_next_runnable_job calls never return the same job; *)
(* a returned job is running and a job becomes running only by being         *)
(* returned; with exactly one runnable job at the start exactly one call     *)
(* returns it and every other call returns None.                             *)
C2_ReserveAtomic ==
    /\ \A c1, c2 \in Callers :
          c1 # c2 /\ caller_ret[c1] # 0 => caller_ret[c1] # caller_ret[c2]
    /\ \A c \in Callers : caller_ret[c] # 0 => jobs[caller_ret[c]].status = RUNNING
    /\ \A j \in DOMAIN jobs :
          jobs[j].status = RUNNING /\ jobs0[j].status # RUNNING
             => \E c \in Callers : caller_pc[c] = "returned" /\ caller_ret[c] = j
    /\ AllReturned /\ Cardinality(RunnableRows(jobs0)) = 1
          => \E c \in Callers :
                /\ caller_ret[c] \in RunnableRows(jobs0)
                /\ \A d \in Callers \ {c} : caller_ret[d] = 0

C2_Witness ==
    /\ AllReturned
    /\ Cardinality(RunnableRows(jobs0)) = 1
    /\ \E c \in Callers : caller_ret[c] # 0 /\ jobs[caller_ret[c]].status = RUNNING

(* C3: a job created with needs_approval is reserved, running or executed    *)
(* only after an approve call took effect on it, and a job rejected or       *)
(* canceled while awaiting approval is never reserved, running or executed.  *)
C3_ApprovalGate ==
    \A j \in DOMAIN jobs :
        /\ jobs[j].needs_approval
           /\ (reserved[j] > 0 \/ executed[j] > 0 \/ jobs[j].status = RUNNING)
              => j \in approved_effect /\ jobs[j].approved_by # NULL
        /\ j \in dead_awaiting
              => reserved[j] = 0 /\ executed[j] = 0 /\ jobs[j].status # RUNNING

C3_Witness ==
    /\ \E j \in DOMAIN jobs :
          jobs[j].needs_approval /\ j \in approved_effect /\ executed[j] > 0
    /\ \E j \in DOMAIN jobs : j \in dead_awaiting /\ jobs[j].needs_approval

(* C4: the number of jobs whose stored status is running never exceeds       *)
(* max_parallel_jobs.                                                        *)
C4_RunningBounded ==
    Cardinality({j \in DOMAIN jobs : jobs[j].status = RUNNING}) <= max_parallel_jobs

TaskEnded(j) == task_pc[j] = "done"

(* C5: a job on which cancel was called while its status was running ends    *)
(* canceled with exit_code 130 and exactly one job_canceled_while_running    *)
(* event.                                                                    *)
C5_CancelMidRun ==
    \A j \in cancel_running :
        TaskEnded(j) =>
            /\ jobs[j].status = CANCELED
            /\ jobs[j].exit_code = EXIT_CANCELED
            /\ Count(events[j], "job_canceled_while_running") = 1


TerminalFields(job) == <<job.status, job.finished_at, job.exit_code, job.summary_text>>

(* C6: once a job is terminal with finished_at set, no later operation       *)
(* writes its status, finished_at, exit_code or summary_text again.          *)
C6_TerminalWrittenOnce ==
    [][\A j \in DOMAIN jobs :
          is_terminal(jobs[j]) /\ jobs[j].finished_at # NULL =>
             /\ terminal_writes'[j] = terminal_writes[j]
             /\ TerminalFields(jobs'[j]) = TerminalFields(jobs[j])]_vars

(* C7: a cancel call on a job whose status is terminal leaves the job's      *)
(* status, finished_at, exit_code, summary_text and error_text unchanged.    *)
C7_CancelIdempotentOnTerminal ==
    [][\A j \in DOMAIN jobs :
          cancel_calls'[j] = cancel_calls[j] + 1 /\ is_terminal(jobs[j]) =>
             /\ TerminalFields(jobs'[j]) = TerminalFields(jobs[j])
             /\ jobs'[j].error_text = jobs[j].error_text]_vars

C7_Witness ==
    \E j \in DOMAIN jobs :
        /\ cancel_calls[j] = 2
        /\ jobs[j].status = SUCCEEDED
        /\ jobs[j].exit_code = 0
        /\ Last(events[j]) = "job_canceled"
        /\ events[j][Len(events[j]) - 1] = "job_canceled"

(* C8: of the approve calls on one job only the first can take effect, and   *)
(* then it moves the job from awaiting_approval to queued and records the    *)
(* approving user; every later approve call leaves the whole row unchanged.  *)
C8_OnlyFirstApprovalTakesEffect ==
    [][\A j \in DOMAIN jobs :
          approve_calls'[j] = approve_calls[j] + 1 =>
             \/ jobs'[j] = jobs[j]
             \/ /\ approve_calls[j] = 0
                /\ jobs[j].status = AWAITING_APPROVAL
                /\ \E u \in Users :
                      jobs'[j] = [jobs[j] EXCEPT !.status = QUEUED, !.approved_by = u,
                                                 !.updated_at = now]]_vars

C8_Witness ==
    \E j \in DOMAIN jobs :
        /\ approve_calls[j] = 2
        /\ j \in approved_effect
        /\ jobs[j].status = QUEUED
        /\ jobs[j].approved_by \in Users

(* C9: finished_at is set if and only if the job's status is terminal.       *)
C9_FinishedIffTerminal ==
    \A j \in DOMAIN jobs : (jobs[j].finished_at # NULL) <=> is_terminal(jobs[j])

C9_Witness ==
    /\ \E j \in DOMAIN jobs : jobs[j].status = CANCELED /\ jobs[j].finished_at # NULL
    /\ \E j \in DOMAIN jobs : jobs[j].status = RUNNING /\ jobs[j].finished_at = NULL

Before(seq, A, B) ==
    \A a, b \in DOMAIN seq : seq[a] \in A /\ seq[b] \in B => a < b

(* C10: in every job's event log job_submitted is the first event,           *)
(* job_approved and job_rejected come before job_started, and job_started    *)
(* comes before job_succeeded, job_failed and job_canceled_while_running.    *)
C10_EventOrder ==
    \A j \in DOMAIN events :
        /\ events[j][1] = "job_submitted"
        /\ Count(events[j], "job_submitted") = 1
        /\ Before(events[j], {"job_approved", "job_rejected"}, {"job_started"})
        /\ Before(events[j], {"job_started"},
                  {"job_succeeded", "job_failed", "job_canceled_while_running"})

TerminalEvents == {"job_succeeded", "job_failed", "job_canceled"}

HasTerminalEvent(log) == \E i \in DOMAIN log : log[i] \in TerminalEvents

(* C11: once the event log of a job holds job_succeeded, job_failed or       *)
(* job_canceled, no further event is appended for that job.                  *)
C11_NoEventAfterTerminal ==
    [][\A j \in DOMAIN events :
          HasTerminalEvent(events[j]) => events'[j] = events[j]]_vars

(* C12: every reserve_next_runnable_job call that returns a job returns the  *)
(* smallest id among the jobs runnable at that moment, so of two jobs        *)
(* runnable at the same time the lower id is reserved first.                 *)
C12_FifoReservation ==
    [][\A c \in Callers :
          caller_pc[c] = "in_tx" /\ caller_pc'[c] = "returned" /\ caller_ret'[c] # 0 =>
             /\ caller_ret'[c] \in RunnableRows(jobs)
             /\ \A i \in RunnableRows(jobs) : caller_ret'[c] <= i]_vars

C12_Witness ==
    /\ Cardinality(RunnableRows(jobs0)) >= 2
    /\ \E c \in Callers :
          /\ caller_ret[c] = Min(RunnableRows(jobs0))
          /\ \E i \in RunnableRows(jobs0) : i > caller_ret[c] /\ jobs[i].status = QUEUED

(* a session job whose run was refused stays failed with exit_code 2 and    *)
(* has no job_started event                                                  *)
RefusedStaysFailed ==
    \A j \in DOMAIN jobs :
        jobs[j].mode = "session" /\ jobs[j].exit_code = EXIT_SESSION_INACTIVE =>
            /\ jobs[j].status = FAILED
            /\ executed[j] = 0
            /\ Count(events[j], "job_started") = 0
            /\ Count(events[j], "job_failed") = 1

(* C13: for a job with mode session the executor is invoked only if the      *)
(* session was active when the worker started; otherwise the worker's first  *)
(* step ends the job failed with exit_code 2 and the error text              *)
(* "Session '<name>' is inactive", appends job_failed, and no job_started    *)
(* event is ever appended for the job.                                       *)
C13_SessionGate ==
    /\ [][\A j \in DOMAIN jobs :
            jobs[j].mode = "session" /\ task_pc[j] = "created" /\ task_pc'[j] # "created"
            /\ j \notin must_cancel =>
               IF jobs[j].session_name = SessionName /\ session_active
               THEN executed'[j] = executed[j] + 1
               ELSE /\ executed'[j] = 0
                    /\ jobs'[j].status = FAILED
                    /\ jobs'[j].exit_code = EXIT_SESSION_INACTIVE
                    /\ jobs'[j].error_text = "Session 'demo' is inactive"
                    /\ Last(events'[j]) = "job_failed"
                    /\ Count(events'[j], "job_started") = 0]_vars
    /\ []RefusedStaysFailed

C13_Witness ==
    /\ \E j \in DOMAIN jobs :
          /\ jobs[j].mode = "session" /\ jobs[j].status = FAILED
          /\ jobs[j].exit_code = EXIT_SESSION_INACTIVE /\ task_pc[j] = "done"
    /\ \E j \in DOMAIN jobs : jobs[j].mode = "session" /\ executed[j] = 1

(* C14: submit creates the job awaiting_approval exactly when the classifier *)
(* returns medium or high for the prompt and queued exactly when it returns  *)
(* low; job_submitted is appended in both cases; approval_required is        *)
(* appended and exactly one approval request goes to the notifier only in    *)
(* the awaiting_approval case.                                               *)
C14_SubmitByRisk ==
    [][Len(jobs') = Len(jobs) + 1 =>
          LET j == Len(jobs')
              risky == classify_prompt(prompts'[j]).level \in {"medium", "high"}
          IN  /\ jobs'[j].status = (IF risky THEN AWAITING_APPROVAL ELSE QUEUED)
              /\ jobs'[j].needs_approval = risky
              /\ events'[j] = (IF risky THEN <<"job_submitted", "approval_required">>
                                        ELSE <<"job_submitted">>)
              /\ notifier_calls'[j] = (IF risky THEN <<"send_text">> ELSE <<>>)]_vars

C14_Witness ==
    \E j \in DOMAIN jobs :
        /\ classify_prompt(prompts[j]).level = "medium"
        /\ jobs[j].status = AWAITING_APPROVAL
        /\ events[j] = <<"job_submitted", "approval_required">>
        /\ notifier_calls[j] = <<"send_text">>

(* C15: a worker task that ended by cancellation has not left its child      *)
(* process running: the child was killed, had exited, or was never spawned.  *)
C15_CancelledWorkerKilledChild ==
    \A j \in DOMAIN jobs : task_result[j] = "cancelled" => child[j] # "running"

C15_Witness ==
    /\ stop_pc = "stopped"
    /\ \E j \in DOMAIN jobs : task_result[j] = "cancelled" /\ child[j] = "killed"

LiveTasks == {j \in DOMAIN task_pc : task_pc[j] \notin {"none", "done"}}

(* C16: at most max_parallel_jobs worker tasks exist; the dispatcher         *)
(* reserves only while the running-tasks set holds fewer than                *)
(* max_parallel_jobs entries, and an entry leaves the set only after its     *)
(* task has ended.                                                           *)
C16_WorkersBounded ==
    /\ [](/\ Cardinality(LiveTasks) <= max_parallel_jobs
          /\ LiveTasks \subseteq running_tasks)
    /\ [][/\ \A j \in DOMAIN reserved :
                reserved'[j] > reserved[j] => Cardinality(running_tasks) < max_parallel_jobs
          /\ \A j \in running_tasks \ running_tasks' : task_pc[j] = "done"]_vars

C16_Witness ==
    /\ Cardinality(LiveTasks) = max_parallel_jobs
    /\ \E j \in DOMAIN jobs : j \notin LiveTasks /\ j \in RunnableRows(jobs)

(* C17: a worker task that ended with an exception other than cancellation   *)
(* leaves its job failed, never running.                                     *)
C17_WorkerExceptionFails ==
    \A j \in DOMAIN jobs : task_result[j] = "exception" => jobs[j].status = FAILED

(* C18: a notifier call that raises does not propagate: no facade call       *)
(* raises, and a worker task into which a notification failed does not end   *)
(* with that exception.                                                      *)
C18_NotifierNeverPropagates ==
    /\ call_raised = {}
    /\ \A j \in DOMAIN jobs :
          <<"_run_job", j>> \in notifier_failures => task_result[j] # "exception"

(* C19: an exception inside a dispatcher iteration does not end the loop:    *)
(* until stop is called the dispatcher stays alive and its next iteration    *)
(* reserves a runnable job when a slot is free.                              *)
C19_DispatcherSurvivesErrors ==
    stop_pc = "idle" =>
        /\ dispatch_alive
        /\ RunnableRows(jobs) # {} /\ slot_free(running_tasks) => ENABLED dispatch_loop

(* with max_parallel_jobs = 1 an iteration raises only while no task is      *)
(* registered, so the registered task was reserved after the errors          *)
C19_Witness ==
    /\ dispatch_errors = MaxDispatchErrors
    /\ stop_pc = "idle"
    /\ \E j \in running_tasks : task_pc[j] = "created" /\ reserved[j] = 1

(* C20: under weak fairness of the dispatcher and the workers every job      *)
(* that is queued and runnable is eventually reserved, and every reserved    *)
(* job eventually reaches a terminal status.                                 *)
C20_Liveness ==
    \A j \in 1..MaxJobs :
        /\ (j \in RunnableRows(jobs)) ~> (j \in DOMAIN jobs /\ reserved[j] > 0)
        /\ (j \in DOMAIN jobs /\ reserved[j] > 0)
              ~> (j \in DOMAIN jobs /\ is_terminal(jobs[j]))

(* C21: a job whose child is still running when the job timeout elapses has  *)
(* the child killed and, unless it is cancelled meanwhile, ends failed with  *)
(* exit_code 124 and the timeout summary; a job whose child was killed never *)
(* ends succeeded.                                                           *)
C21_TimeoutFails ==
    /\ [][\A j \in DOMAIN jobs :
            task_pc[j] = "reaping_timeout" /\ task_pc'[j] # "reaping_timeout"
            /\ j \notin must_cancel =>
               /\ child[j] = "killed"
               /\ jobs'[j].status = FAILED
               /\ jobs'[j].exit_code = EXIT_TIMEOUT
               /\ jobs'[j].summary_text = "Timed out while executing Codex command"]_vars
    /\ [](\A j \in DOMAIN jobs : child[j] = "killed" => jobs[j].status # SUCCEEDED)

(* the exit code that goes with the summary of a failed job *)
FailureCodes(j) ==
    CASE jobs[j].summary_text = "Session mode requested but session is inactive"
            -> {EXIT_SESSION_INACTIVE}
      [] jobs[j].summary_text = "Executor raised an unexpected error" -> {EXIT_EXCEPTION}
      [] jobs[j].summary_text = "Timed out while executing Codex command" -> {EXIT_TIMEOUT}
      [] jobs[j].summary_text = "Execution failed." -> {child_rc[j]} \ {0, NULL}
      [] OTHER -> {}

(* C22: for every terminal job status and exit_code agree: succeeded exactly *)
(* with exit_code 0; failed with a non-null, non-zero exit_code, which is 2  *)
(* for the session pre-check, 1 for an executor exception, 124 for a timeout *)
(* and the agent CLI's own code otherwise; rejected, and canceled before any *)
(* reservation, with a null exit_code.                                       *)
C22_StatusExitAgree ==
    \A j \in DOMAIN jobs :
        is_terminal(jobs[j]) =>
            /\ jobs[j].status = SUCCEEDED <=> jobs[j].exit_code = 0
            /\ jobs[j].status = FAILED =>
                  /\ jobs[j].exit_code \notin {NULL, 0}
                  /\ jobs[j].exit_code \in FailureCodes(j)
            /\ jobs[j].status = REJECTED => jobs[j].exit_code = NULL
            /\ jobs[j].status = CANCELED /\ reserved[j] = 0 => jobs[j].exit_code = NULL

C22_Witness ==
    /\ \E j \in DOMAIN jobs : jobs[j].status = FAILED /\ jobs[j].exit_code = EXIT_TIMEOUT
    /\ \E j \in DOMAIN jobs : jobs[j].status = REJECTED /\ task_pc[j] = "none"

(* C26: every job that has been running and is terminal has                  *)
(* started_at <= finished_at; started_at is set only by the reservation and  *)
(* never changes once it is set.                                             *)
C26_StartedBeforeFinished ==
    /\ [](\A j \in DOMAIN jobs :
            reserved[j] > 0 /\ is_terminal(jobs[j]) =>
               /\ jobs[j].started_at # NULL
               /\ jobs[j].finished_at # NULL
               /\ jobs[j].started_at <= jobs[j].finished_at)
    /\ [][\A j \in DOMAIN jobs :
            jobs'[j].started_at # jobs[j].started_at =>
               /\ jobs[j].started_at = NULL
               /\ reserved'[j] = reserved[j] + 1]_vars

C26_Witness ==
    \E j \in DOMAIN jobs :
        /\ reserved[j] = 1 /\ jobs[j].status = SUCCEEDED
        /\ jobs[j].started_at = 1 /\ jobs[j].finished_at = 2
        /\ jobs[j].updated_at = 2

(* C23: after any sequence of run-directory scans, output-text scans and     *)
(* recap-video registrations no two artifact rows of one job have the same  *)
(* resolved path.                                                            *)
C23_ArtifactsDeduplicated ==
    \A a, b \in DOMAIN artifacts :
        a # b /\ artifacts[a].job_id = artifacts[b].job_id
            => resolve(files, artifacts[a].path) # resolve(files, artifacts[b].path)

(* C24: the resolved path of every artifact row lies inside an allowed       *)
(* workdir or inside the runs directory.                                     *)
C24_ArtifactsInsideRoots ==
    \A a \in DOMAIN artifacts :
        is_under_any_root(resolve(files, artifacts[a].path),
                          codex_allowed_workdirs \cup {runs_dir})

(* C25: every registered file has an extension of the allow-list, a size     *)
(* greater than zero and a size not above max_artifact_bytes.                *)
C25_RegisteredFilesPassFilter ==
    \A a \in DOMAIN artifacts :
        /\ lower(suffix(artifacts[a].path)) \in allowed_artifact_extensions
        /\ artifacts[a].size_bytes > 0
        /\ artifacts[a].size_bytes <= max_artifact_bytes

(* C27: after any sequence of set_workdir calls the effective working         *)
(* directory is the configured default or a directory inside an allowed      *)
(* root, and a call that is rejected leaves the override unchanged.          *)
C27_WorkdirInsideRoots ==
    /\ [](\/ get_effective_workdir(runtime) = codex_workdir
          \/ /\ get_effective_workdir(runtime) \in Dirs
             /\ \E root \in codex_allowed_workdirs :
                   is_relative_to(get_effective_workdir(runtime), root))
    /\ [][last_call'.op = "set_workdir" /\ last_call'.raised
             => runtime'.workdir_override = runtime.workdir_override]_vars

C27_Witness ==
    /\ runtime.workdir_override = <<"srv", "shared">>
    /\ last_call.op = "set_workdir" /\ last_call.raised
    /\ last_call.args[1] = Str(<<"..", "workshop">>, FALSE)

Personalities == {"none", "friendly", "pragmatic", "custom"}

(* the value a setter call was given for an enumerated field lies outside    *)
(* the enumeration of the field                                              *)
OutsideEnumeration(call) ==
    \/ call.op = "set_model" /\ ~call.args[2].none
       /\ strip_lower(call.args[2]) \notin ALLOWED_REASONING_EFFORTS
    \/ call.op = "set_sandbox_mode" /\ ~call.args[1].none
       /\ strip_lower(call.args[1]) \notin ALLOWED_SANDBOX_MODES
    \/ call.op = "set_approval_policy" /\ ~call.args[1].none
       /\ strip_lower(call.args[1]) \notin ALLOWED_APPROVAL_POLICIES
    \/ call.op = "set_web_search_mode" /\ ~call.args[1].none
       /\ strip_lower(call.args[1]) \notin ALLOWED_WEB_SEARCH_MODES
    \/ call.op = "set_personality" /\ strip_lower(call.args[1]) \notin Personalities

(* C28: after any sequence of setter calls reasoning_effort, sandbox_mode,    *)
(* approval_policy and web_search are unset or a recognized value and        *)
(* personality is none, friendly, pragmatic or custom; a setter given a      *)
(* value outside the enumeration raises.                                     *)
C28_ProfileValuesValid ==
    /\ [](/\ runtime.reasoning_effort \in ALLOWED_REASONING_EFFORTS \cup {NoText}
          /\ runtime.sandbox_mode \in ALLOWED_SANDBOX_MODES \cup {NoText}
          /\ runtime.approval_policy \in ALLOWED_APPROVAL_POLICIES \cup {NoText}
          /\ runtime.web_search \in ALLOWED_WEB_SEARCH_MODES \cup {NoText}
          /\ runtime.personality \in Personalities)
    /\ [][last_call' # last_call /\ OutsideEnumeration(last_call') => last_call'.raised]_vars

(* C29: a set_experimental_feature call that repeats the call before it      *)
(* leaves the profile as the first call left it.                             *)
C29_SetExperimentalIdempotent ==
    [][(/\ last_call.op = "set_experimental_feature"
        /\ last_call'.op = "set_experimental_feature"
        /\ last_call'.repeated)
          => runtime' = runtime /\ last_call'.raised = last_call.raised]_vars

C29_Witness ==
    /\ last_call.op = "set_experimental_feature" /\ last_call.repeated
    /\ last_call.args = <<Str(<<"Web", "Search">>, TRUE), None, TRUE>>
    /\ runtime.experimental_features = {"web-search", "js_repl"}

OutputFlagCount(cmd) ==
    Cardinality({i \in DOMAIN cmd : cmd[i] \in ShortOutputFlags \cup LongOutputFlags})

SkipFlagCount(cmd) == Cardinality({i \in DOMAIN cmd : cmd[i] = SKIP_FLAG})

C40_FailedSetterKeepsProfile ==
    [][last_call'.raised => runtime' = runtime]_vars

(* C36: approve, reject and cancel append job_approved, job_rejected and     *)
(* job_canceled only in a step in which the row changed to queued, rejected  *)
(* or canceled, so the log of a job holds each of them at most once.         *)
C36_EventOnlyOnEffect ==
    /\ [](\A j \in DOMAIN events :
             /\ Count(events[j], "job_approved") <= 1
             /\ Count(events[j], "job_rejected") <= 1
             /\ Count(events[j], "job_canceled") <= 1)
    /\ [][\A j \in DOMAIN events :
             /\ Count(events'[j], "job_approved") > Count(events[j], "job_approved")
                   => jobs[j].status = AWAITING_APPROVAL /\ jobs'[j].status = QUEUED
             /\ Count(events'[j], "job_rejected") > Count(events[j], "job_rejected")
                   => jobs[j].status = AWAITING_APPROVAL /\ jobs'[j].status = REJECTED
             /\ Count(events'[j], "job_canceled") > Count(events[j], "job_canceled")
                   => ~is_terminal(jobs[j]) /\ jobs'[j].status = CANCELED]_vars

(* C37: a job on which cancel_job was called at most once and reject_job     *)
(* never has at most one send_job_status call made for it, however the       *)
(* cancel call interleaves with the job's worker task.                       *)
C37_OneTerminalNotification ==
    \A j \in DOMAIN notifier_calls :
        cancel_calls[j] <= 1 /\ reject_calls[j] = 0
            => Count(notifier_calls[j], "send_job_status") <= 1

(* C38: once stop has returned no worker task remains, no job has status     *)
(* running, and no job is reserved as long as the orchestrator stays         *)
(* stopped.                                                                  *)
C38_StopLeavesNothingRunning ==
    /\ [](stop_pc = "stopped" =>
             /\ running_tasks = {}
             /\ \A j \in DOMAIN jobs : task_pc[j] \in {"none", "done"}
             /\ \A j \in DOMAIN jobs : jobs[j].status # RUNNING)
    /\ [][stop_pc = "stopped" /\ stop_pc' = "stopped" =>
             \A j \in DOMAIN reserved' :
                 reserved'[j] = (IF j \in DOMAIN reserved THEN reserved[j] ELSE 0)]_vars

(* C35: every job is returned by a reservation at most once and its worker   *)
(* calls the executor at most once, whatever approve, reject, cancel, stop   *)
(* and start calls and dispatcher iterations take place.                     *)
C35_AtMostOnceExecution ==
    \A j \in DOMAIN jobs : reserved[j] <= 1 /\ executed[j] <= 1

C35_Witness ==
    /\ Len(jobs) = 2
    /\ stop_pc = "idle"
    /\ jobs[1].status = CANCELED /\ cancel_calls[1] = 0 /\ executed[1] = 1
    /\ jobs[2].status = SUCCEEDED /\ approve_calls[2] = 2 /\ executed[2] = 1

(* the output-last-message flags of the command that carry the output path *)
OutputPathFlags(cmd) ==
    {i \in DOMAIN cmd :
        \/ cmd[i] \in {"-o", "--output-last-message"} /\ i < Len(cmd) /\ cmd[i + 1] = "P"
        \/ cmd[i] \in {"-o=P", "--output-last-message=P"}}

(* C31: the command built with an output path has exactly one                *)
(* output-last-message flag that is an argument of codex exec and carries    *)
(* the path, whatever the prompt: a prompt that contains or is "-o" neither  *)
(* suppresses the flag nor adds a second one.                                *)
C31_OneOutputFlagWhateverPrompt ==
    passes = 1 =>
        /\ Cardinality(OutputPathFlags(command)) = 1
        /\ OutputFlagCount(command) = 1

(* C39: over overlapping create calls for a session that is not active, at *)
(* most one call returns created = true, at most one boot process is         *)
(* spawned, and once every call has returned without raising exactly one     *)
(* has returned created = true                                               *)
C39_SingleCreate ==
    /\ Cardinality({c \in Creators : create_ret[c] = "created"}) <= 1
    /\ boot_spawned <= 1
    /\ ((\A c \in Creators : create_ret[c] \in {"created", "existing"})
           => \E c \in Creators : create_ret[c] = "created")

(* C32: after a restart of the process, every token that was registered in *)
(* the poll store or the checklist store and has not been removed is         *)
(* returned by get of the store, and no removed token is                     *)
C32_TokensSurviveRestart ==
    restarts > 0 =>
        /\ \A t \in pending : store_get(store_of(t[1]), t[2]) # NULL
        /\ \A t \in popped : store_get(store_of(t[1]), t[2]) = NULL

(* C33: every call of submit, approve, reject or cancel, every session      *)
(* create or stop and every setter of the runtime profile that the handling *)
(* of an update caused was caused by an update of the owner                  *)
C33_OwnerOnlyControl == control_callers \subseteq {owner_user_id}

(* the other user has sent /approve while a job waits for approval, after    *)
(* the owner had made a control call                                         *)
C33_Witness ==
    /\ last_update.user \in Users \ {owner_user_id}
    /\ last_update.kind = "approve"
    /\ \E j \in JobIds : jobs[j].status = AWAITING_APPROVAL
    /\ control_callers = {owner_user_id}

(* C34: when the owner marks the approve task of a tracked approval          *)
(* checklist done and the job of the checklist waits for approval, the job   *)
(* is queued by the handling of the event, whatever the time of the owner's  *)
(* last command                                                              *)
C34_ChecklistApprovalNotRateLimited ==
    [][(/\ last_update' # last_update
        /\ last_update'.kind = "checklist_done"
        /\ last_update'.user = owner_user_id
        /\ last_update'.task = APPROVAL_TASK_APPROVE
        /\ last_update'.job # NULL
        /\ jobs[last_update'.job].status = AWAITING_APPROVAL)
       => jobs'[last_update'.job].status = QUEUED]_vars

====
